---- MODULE Spec2Model ----
(***************************************************************************)
(* Model of the resilient VICE MCP client                                  *)
(* (tools/resilience/vice_mcp_resilient.py): client-side schema            *)
(* validation, the retry / fallback loop of ViceMCPClient._call_raw, the   *)
(* request-id counter and the MCPReliabilityMonitor log.                   *)
(*                                                                         *)
(* Python values are represented by the name of their type, optional       *)
(* values (None or a value) by a sequence of length 0 or 1, and the float  *)
(* timeout * 1.5 ** attempt by the exact fraction <<num, den>>.            *)
(***************************************************************************)
EXTENDS Integers, Sequences, FiniteSets, TLC

\* ------------------------------------------------------------------------
\* Bounds of the model
\* ------------------------------------------------------------------------
\* largest max_retries a client of the sequential specification is built with
MaxRetriesBound == 2
\* max_retries of a client shared by concurrent callers
ConcRetriesBound == 1
\* number of caller threads sharing one client
NThreads == 2
\* number of logical calls the concurrent callers may start in total
MaxCalls == 2

\* cap of the attempt counter: one more attempt than any configuration
\* allows
MaxAttempts == MaxRetriesBound + 2

Threads == 1..NThreads

\* ------------------------------------------------------------------------
\* Optional values and small arithmetic helpers
\* ------------------------------------------------------------------------
None == <<>>

Some(v) == <<v>>

RECURSIVE Pow(_, _)
Pow(b, e) == IF e <= 0 THEN 1 ELSE b * Pow(b, e - 1)

\* ------------------------------------------------------------------------
\* JSON-RPC / MCP error codes
\* ------------------------------------------------------------------------
JSONRPC_PARSE_ERROR == -32700

JSONRPC_INVALID_REQUEST == -32600

JSONRPC_METHOD_NOT_FOUND == -32601

JSONRPC_INVALID_PARAMS == -32602

MCP_ERROR_NOT_IMPLEMENTED == -32000

MCP_ERROR_SNAPSHOT_FAILED == -32004

\* variant: the end of the range belongs to the band
PROTOCOL_ERROR_CODES_closed == {c \in -32799..-32599 : TRUE}

\* frozenset(range(-32799, -32599))
PROTOCOL_ERROR_CODES == {c \in -32799..-32600 : TRUE}

\* ------------------------------------------------------------------------
\* Messages: str(exc) of a transport or server error is a plain text; the
\* errors synthesized by the client embed a count and an inner text.
\* ------------------------------------------------------------------------
Plain(text) == [prefix |-> "", n |-> 0, text |-> text]

Composed(prefix, n, text) == [prefix |-> prefix, n |-> n, text |-> text]

\* ------------------------------------------------------------------------
\* Exception classes.  IsViceMCPError and IsOSError are the isinstance
\* tests of the except clauses and of the exhaustion branch.
\* ------------------------------------------------------------------------
ViceMCPErrorClasses ==
   {"ViceMCPError", "ViceMCPConnectionError", "ViceMCPTimeoutError",
    "ViceMCPProtocolError", "ViceMCPToolError", "ViceMCPValidationError"}

\* transport exceptions that derive from OSError (socket, urllib and
\* requests errors) and one that does not (http.client.IncompleteRead)
OSErrorClasses == {"ConnectionRefusedError", "TimeoutError", "HTTPError"}

OtherExceptionClasses == {"IncompleteRead"}

IsViceMCPError(cls) == cls \in ViceMCPErrorClasses

IsOSError(cls) == cls \in OSErrorClasses

\* An exception object: class, str(exc), and the code attribute if it has one
Exc(cls, msg, code) == [cls |-> cls, msg |-> msg, code |-> code]

NoError == Exc("None", Plain(""), None)

\* ViceMCPError.__init__(message, code=0)
ViceMCPError(cls, msg, code) == Exc(cls, msg, Some(code))

\* ------------------------------------------------------------------------
\* Schema registry and validation
\* ------------------------------------------------------------------------
TOOL_SCHEMAS ==
   ("vice.ping" :> [required |-> <<>>,
      optional |-> <<>>]) @@
   ("vice.execution.run" :> [required |-> <<>>,
      optional |-> <<>>]) @@
   ("vice.execution.pause" :> [required |-> <<>>,
      optional |-> <<>>]) @@
   ("vice.execution.step" :> [required |-> <<>>,
      optional |-> <<<<"count", "number">>, <<"step_over", "boolean">>>>]) @@
   ("vice.registers.get" :> [required |-> <<>>,
      optional |-> <<>>]) @@
   ("vice.registers.set" :> [required |-> <<<<"register", "string">>, <<"value", "number">>>>,
      optional |-> <<>>]) @@
   ("vice.memory.read" :> [required |-> <<<<"address", "any">>, <<"size", "number">>>>,
      optional |-> <<<<"bank", "string">>>>]) @@
   ("vice.memory.write" :> [required |-> <<<<"address", "any">>, <<"data", "array">>>>,
      optional |-> <<>>]) @@
   ("vice.memory.banks" :> [required |-> <<>>,
      optional |-> <<>>]) @@
   ("vice.memory.search" :> [required |-> <<<<"start", "any">>, <<"end", "any">>, <<"pattern", "array">>>>,
      optional |-> <<<<"mask", "array">>, <<"max_results", "number">>>>]) @@
   ("vice.checkpoint.add" :> [required |-> <<<<"start", "any">>>>,
      optional |-> <<<<"end", "any">>, <<"stop", "boolean">>, <<"load", "boolean">>, <<"store", "boolean">>, <<"exec", "boolean">>>>]) @@
   ("vice.checkpoint.delete" :> [required |-> <<<<"checkpoint_num", "number">>>>,
      optional |-> <<>>]) @@
   ("vice.checkpoint.list" :> [required |-> <<>>,
      optional |-> <<>>]) @@
   ("vice.checkpoint.toggle" :> [required |-> <<<<"checkpoint_num", "number">>, <<"enabled", "boolean">>>>,
      optional |-> <<>>]) @@
   ("vice.checkpoint.set_condition" :> [required |-> <<<<"checkpoint_num", "number">>, <<"condition", "string">>>>,
      optional |-> <<>>]) @@
   ("vice.checkpoint.set_ignore_count" :> [required |-> <<<<"checkpoint_num", "number">>, <<"count", "number">>>>,
      optional |-> <<>>]) @@
   ("vice.sprite.get" :> [required |-> <<>>,
      optional |-> <<<<"sprite", "number">>>>]) @@
   ("vice.sprite.set" :> [required |-> <<<<"sprite", "number">>>>,
      optional |-> <<<<"enabled", "boolean">>, <<"x", "number">>, <<"y", "number">>, <<"color", "number">>, <<"multicolor", "boolean">>, <<"expand_x", "boolean">>, <<"expand_y", "boolean">>, <<"priority", "boolean">>, <<"multicolor0", "number">>, <<"multicolor1", "number">>, <<"pointer", "number">>>>]) @@
   ("vice.vicii.get_state" :> [required |-> <<>>,
      optional |-> <<>>]) @@
   ("vice.vicii.set_state" :> [required |-> <<>>,
      optional |-> <<<<"registers", "array">>>>]) @@
   ("vice.sid.get_state" :> [required |-> <<>>,
      optional |-> <<>>]) @@
   ("vice.sid.set_state" :> [required |-> <<>>,
      optional |-> <<<<"registers", "array">>>>]) @@
   ("vice.cia.get_state" :> [required |-> <<>>,
      optional |-> <<>>]) @@
   ("vice.cia.set_state" :> [required |-> <<>>,
      optional |-> <<<<"cia1_registers", "array">>, <<"cia2_registers", "array">>>>]) @@
   ("vice.disk.attach" :> [required |-> <<<<"unit", "number">>, <<"path", "string">>>>,
      optional |-> <<>>]) @@
   ("vice.disk.detach" :> [required |-> <<<<"unit", "number">>>>,
      optional |-> <<>>]) @@
   ("vice.disk.list" :> [required |-> <<<<"unit", "number">>>>,
      optional |-> <<>>]) @@
   ("vice.disk.read_sector" :> [required |-> <<<<"unit", "number">>, <<"track", "number">>, <<"sector", "number">>>>,
      optional |-> <<>>]) @@
   ("vice.autostart" :> [required |-> <<<<"path", "string">>>>,
      optional |-> <<<<"program", "string">>, <<"run", "boolean">>, <<"index", "number">>>>]) @@
   ("vice.machine.reset" :> [required |-> <<>>,
      optional |-> <<<<"mode", "string">>, <<"run_after", "boolean">>>>]) @@
   ("vice.display.screenshot" :> [required |-> <<>>,
      optional |-> <<<<"path", "string">>, <<"format", "string">>, <<"return_base64", "boolean">>>>]) @@
   ("vice.display.get_dimensions" :> [required |-> <<>>,
      optional |-> <<>>]) @@
   ("vice.keyboard.type" :> [required |-> <<<<"text", "string">>>>,
      optional |-> <<<<"petscii_upper", "boolean">>>>]) @@
   ("vice.keyboard.key_press" :> [required |-> <<<<"key", "string">>>>,
      optional |-> <<<<"modifiers", "array">>, <<"hold_frames", "number">>, <<"hold_ms", "number">>>>]) @@
   ("vice.keyboard.key_release" :> [required |-> <<<<"key", "string">>>>,
      optional |-> <<<<"modifiers", "array">>>>]) @@
   ("vice.keyboard.restore" :> [required |-> <<>>,
      optional |-> <<<<"pressed", "boolean">>>>]) @@
   ("vice.keyboard.matrix" :> [required |-> <<>>,
      optional |-> <<<<"key", "string">>, <<"row", "number">>, <<"col", "number">>, <<"pressed", "boolean">>, <<"hold_frames", "number">>, <<"hold_ms", "number">>>>]) @@
   ("vice.joystick.set" :> [required |-> <<>>,
      optional |-> <<<<"port", "number">>, <<"direction", "string">>, <<"fire", "boolean">>>>]) @@
   ("vice.disassemble" :> [required |-> <<<<"address", "any">>>>,
      optional |-> <<<<"count", "number">>, <<"show_symbols", "boolean">>>>]) @@
   ("vice.symbols.load" :> [required |-> <<<<"path", "string">>>>,
      optional |-> <<<<"format", "string">>>>]) @@
   ("vice.symbols.lookup" :> [required |-> <<>>,
      optional |-> <<<<"name", "string">>, <<"address", "any">>>>]) @@
   ("vice.watch.add" :> [required |-> <<<<"address", "any">>>>,
      optional |-> <<<<"size", "number">>, <<"type", "string">>, <<"condition", "string">>>>]) @@
   ("vice.backtrace" :> [required |-> <<>>,
      optional |-> <<<<"depth", "number">>>>]) @@
   ("vice.run_until" :> [required |-> <<>>,
      optional |-> <<<<"address", "any">>, <<"cycles", "number">>>>]) @@
   ("vice.snapshot.save" :> [required |-> <<<<"name", "string">>>>,
      optional |-> <<<<"description", "string">>, <<"include_roms", "boolean">>, <<"include_disks", "boolean">>>>]) @@
   ("vice.snapshot.load" :> [required |-> <<<<"name", "string">>>>,
      optional |-> <<>>]) @@
   ("vice.snapshot.list" :> [required |-> <<>>,
      optional |-> <<>>]) @@
   ("vice.cycles.stopwatch" :> [required |-> <<<<"action", "string">>>>,
      optional |-> <<>>]) @@
   ("vice.memory.fill" :> [required |-> <<<<"start", "any">>, <<"end", "any">>, <<"pattern", "array">>>>,
      optional |-> <<>>]) @@
   ("vice.memory.compare" :> [required |-> <<<<"mode", "string">>>>,
      optional |-> <<<<"start1", "any">>, <<"end1", "any">>, <<"start2", "any">>, <<"snapshot_name", "string">>, <<"start", "any">>, <<"end", "any">>>>]) @@
   ("vice.memory.map" :> [required |-> <<>>,
      optional |-> <<<<"start", "any">>, <<"end", "any">>, <<"granularity", "number">>>>]) @@
   ("vice.checkpoint.group.create" :> [required |-> <<<<"name", "string">>>>,
      optional |-> <<<<"checkpoint_ids", "array">>>>]) @@
   ("vice.checkpoint.group.add" :> [required |-> <<<<"group", "string">>, <<"checkpoint_ids", "array">>>>,
      optional |-> <<>>]) @@
   ("vice.checkpoint.group.toggle" :> [required |-> <<<<"group", "string">>, <<"enabled", "boolean">>>>,
      optional |-> <<>>]) @@
   ("vice.checkpoint.group.list" :> [required |-> <<>>,
      optional |-> <<>>]) @@
   ("vice.checkpoint.set_auto_snapshot" :> [required |-> <<<<"checkpoint_id", "number">>, <<"snapshot_prefix", "string">>>>,
      optional |-> <<<<"max_snapshots", "number">>, <<"include_disks", "boolean">>>>]) @@
   ("vice.checkpoint.clear_auto_snapshot" :> [required |-> <<<<"checkpoint_id", "number">>>>,
      optional |-> <<>>]) @@
   ("vice.trace.start" :> [required |-> <<<<"output_file", "string">>>>,
      optional |-> <<<<"pc_filter_start", "any">>, <<"pc_filter_end", "any">>, <<"max_instructions", "number">>, <<"include_registers", "boolean">>>>]) @@
   ("vice.trace.stop" :> [required |-> <<<<"trace_id", "string">>>>,
      optional |-> <<>>]) @@
   ("vice.interrupt.log.start" :> [required |-> <<>>,
      optional |-> <<<<"types", "array">>, <<"max_entries", "number">>>>]) @@
   ("vice.interrupt.log.stop" :> [required |-> <<<<"log_id", "string">>>>,
      optional |-> <<>>]) @@
   ("vice.interrupt.log.read" :> [required |-> <<<<"log_id", "string">>>>,
      optional |-> <<<<"since_index", "number">>>>]) @@
   ("vice.sprite.inspect" :> [required |-> <<<<"sprite_number", "number">>>>,
      optional |-> <<<<"format", "string">>>>])


PyTypes == {"int", "float", "bool", "str", "list", "tuple", "dict", "NoneType"}

\* isinstance(value, cls) on the type of the value: bool is a subclass of int
IsInstance(value, cls) == value = cls \/ (value = "bool" /\ cls = "int")

\* variant: the number kind without the exclusion of bool
_validate_type_bool_number(value, type_str) ==
   CASE type_str = "any" -> TRUE
     [] type_str = "number" ->
          IsInstance(value, "int") \/ IsInstance(value, "float")
     [] type_str = "string" -> IsInstance(value, "str")
     [] type_str = "boolean" -> IsInstance(value, "bool")
     [] type_str = "array" ->
          IsInstance(value, "list") \/ IsInstance(value, "tuple")
     [] type_str = "object" -> IsInstance(value, "dict")
     [] OTHER -> TRUE

_validate_type(value, type_str) ==
   CASE type_str = "any" -> TRUE
     [] type_str = "number" ->
          (IsInstance(value, "int") \/ IsInstance(value, "float"))
             /\ ~IsInstance(value, "bool")
     [] type_str = "string" -> IsInstance(value, "str")
     [] type_str = "boolean" -> IsInstance(value, "bool")
     [] type_str = "array" ->
          IsInstance(value, "list") \/ IsInstance(value, "tuple")
     [] type_str = "object" -> IsInstance(value, "dict")
     [] OTHER -> TRUE

MissingError(param_name) == [kind |-> "missing", param |-> param_name]

WrongTypeError(param_name) == [kind |-> "wrongtype", param |-> param_name]

\* variant: a missing required parameter is not reported
RECURSIVE RequiredErrors_present_only(_, _)
RequiredErrors_present_only(required, params) ==
   IF required = <<>> THEN <<>>
   ELSE LET param_name == Head(required)[1]
            param_type == Head(required)[2]
            here == IF param_name \in DOMAIN params
                         /\ ~_validate_type(params[param_name], param_type)
                       THEN <<WrongTypeError(param_name)>>
                    ELSE <<>>
        IN here \o RequiredErrors_present_only(Tail(required), params)

\* variant: the loop stops at the first violation
RECURSIVE RequiredErrors_first_only(_, _)
RequiredErrors_first_only(required, params) ==
   IF required = <<>> THEN <<>>
   ELSE LET param_name == Head(required)[1]
            param_type == Head(required)[2]
            here == IF param_name \notin DOMAIN params
                       THEN <<MissingError(param_name)>>
                    ELSE IF ~_validate_type(params[param_name], param_type)
                       THEN <<WrongTypeError(param_name)>>
                    ELSE <<>>
        IN IF here # <<>> THEN here
           ELSE RequiredErrors_first_only(Tail(required), params)

\* the loop over schema["required"]
RECURSIVE RequiredErrors(_, _)
RequiredErrors(required, params) ==
   IF required = <<>> THEN <<>>
   ELSE LET param_name == Head(required)[1]
            param_type == Head(required)[2]
            here == IF param_name \notin DOMAIN params
                       THEN <<MissingError(param_name)>>
                    ELSE IF ~_validate_type(params[param_name], param_type)
                       THEN <<WrongTypeError(param_name)>>
                    ELSE <<>>
        IN here \o RequiredErrors(Tail(required), params)

\* variant: an optional parameter that is not supplied is reported as
\* missing
RECURSIVE OptionalErrors_as_required(_, _)
OptionalErrors_as_required(optional, params) ==
   IF optional = <<>> THEN <<>>
   ELSE LET param_name == Head(optional)[1]
            param_type == Head(optional)[2]
            here == IF param_name \notin DOMAIN params
                       THEN <<MissingError(param_name)>>
                    ELSE IF ~_validate_type(params[param_name], param_type)
                       THEN <<WrongTypeError(param_name)>>
                    ELSE <<>>
        IN here \o OptionalErrors_as_required(Tail(optional), params)

\* the loop over schema["optional"]
RECURSIVE OptionalErrors(_, _)
OptionalErrors(optional, params) ==
   IF optional = <<>> THEN <<>>
   ELSE LET param_name == Head(optional)[1]
            param_type == Head(optional)[2]
            here == IF param_name \in DOMAIN params
                         /\ ~_validate_type(params[param_name], param_type)
                       THEN <<WrongTypeError(param_name)>>
                    ELSE <<>>
        IN here \o OptionalErrors(Tail(optional), params)

\* variant: a tool without a schema is a violation
validate_params_registered_only(tool_name, params) ==
   IF tool_name \notin DOMAIN TOOL_SCHEMAS
      THEN <<[kind |-> "unknown tool", param |-> tool_name]>>
   ELSE LET schema == TOOL_SCHEMAS[tool_name]
        IN RequiredErrors(schema.required, params)
              \o OptionalErrors(schema.optional, params)

validate_params(tool_name, params) ==
   IF tool_name \notin DOMAIN TOOL_SCHEMAS THEN <<>>
   ELSE LET schema == TOOL_SCHEMAS[tool_name]
        IN RequiredErrors(schema.required, params)
              \o OptionalErrors(schema.optional, params)

UnknownTool == "vice.unknown"

\* {n for n, _ in schema["required"]}
RequiredNames(tool) ==
   IF tool \notin DOMAIN TOOL_SCHEMAS THEN {}
   ELSE {TOOL_SCHEMAS[tool].required[i][1] :
            i \in DOMAIN TOOL_SCHEMAS[tool].required}

\* known_names
KnownNames(tool) ==
   IF tool \notin DOMAIN TOOL_SCHEMAS THEN {}
   ELSE RequiredNames(tool)
           \cup {TOOL_SCHEMAS[tool].optional[i][1] :
                    i \in DOMAIN TOOL_SCHEMAS[tool].optional}

\* ------------------------------------------------------------------------
\* Responses of the transport and their decoding
\* ------------------------------------------------------------------------
\* What one _http_post can produce:
\*   kind "raise"     the transport raises Exc(cls, msg, code)
\*   kind "badjson"   a body that is not JSON
\*   kind "nonobject" a JSON body that is not an object
\*   kind "error"     a JSON object with an error member (code may be absent)
\*   kind "result"    a JSON object with a result member of the given shape
Resp(kind, cls, msg, code, result) ==
   [kind |-> kind, cls |-> cls, msg |-> msg, code |-> code,
    result |-> result]

\* JSON values as json.loads builds them: None, bool, int, str, list, dict.
\* A dict carries its members as a record; Absent stands for a member that
\* is not there.
JNull == [t |-> "null"]

JBool(b) == [t |-> "bool", b |-> b]

JNum(n) == [t |-> "num", n |-> n]

JStr(s) == [t |-> "str", s |-> s]

JList(items) == [t |-> "list", items |-> items]

JDict(f) == [t |-> "dict", f |-> f]

Absent == [t |-> "absent"]

\* "key" in d, for any JSON value d that is a dict
HasKey(d, key) == key \in DOMAIN d.f

\* d.get(key, default)
Get(d, key, default) == IF HasKey(d, key) THEN d.f[key] ELSE default

\* the texts of content blocks that json.loads accepts, with what it
\* returns for them
JsonTexts ==
   ("{\"ok\":true}" :> JDict([ok |-> JBool(TRUE)]))
   @@ ("[1]" :> JList(<<JNum(1)>>))
   @@ ("5" :> JNum(5))
   @@ ("null" :> JNull)
   @@ ("\"pong\"" :> JStr("pong"))

\* json.loads(text): the value, a JSONDecodeError for a string that is not
\* JSON, a TypeError for a text that is not a string
json_loads(text) ==
   IF text.t # "str" THEN [raised |-> TRUE, cls |-> "TypeError", value |-> JNull]
   ELSE IF text.s \in DOMAIN JsonTexts
           THEN [raised |-> FALSE, cls |-> "", value |-> JsonTexts[text.s]]
           ELSE [raised |-> TRUE, cls |-> "JSONDecodeError", value |-> JNull]

\* a content block of type "text"
TextBlock(text) == JDict([type |-> JStr("text"), text |-> text])

\* a result in the MCP encoding: a dict with a content member
McpContent(content) ==
   JDict([content |-> content, isError |-> JBool(FALSE)])

\* content holding the given blocks
McpResult(blocks) == McpContent(JList(blocks))

\* the outcome of evaluating an expression: a value or a raised exception
Returned(value) == [raised |-> FALSE, exc |-> NoError, value |-> value]

Raised(exc) == [raised |-> TRUE, exc |-> exc, value |-> Absent]

\* variant: whatever the body is, it is handed to _unwrap_result
_parse_response_lenient(body) == Returned(body)

_parse_response(body) ==
   CASE body.kind = "badjson" ->
          Raised(ViceMCPError("ViceMCPProtocolError",
                              Plain("Invalid JSON in response"),
                              JSONRPC_PARSE_ERROR))
     [] body.kind = "nonobject" ->
          Raised(ViceMCPError("ViceMCPProtocolError",
                              Plain("Response is not a JSON object"),
                              JSONRPC_INVALID_REQUEST))
     [] OTHER -> Returned(body)

\* variant: the first block of a content of any length
IsOneBlock_first(content) == content.t = "list" /\ Len(content.items) >= 1

\* isinstance(content, list) and len(content) == 1
IsOneBlock(content) == content.t = "list" /\ Len(content.items) = 1

\* isinstance(block, dict) and block.get("type") == "text"
IsTextBlock(block) ==
   block.t = "dict" /\ Get(block, "type", JNull) = JStr("text")

\* variant: a response without error and without result is a protocol error
_unwrap_result_strict(data) ==
   IF data.kind # "error" /\ data.result = Absent
      THEN Raised(ViceMCPError("ViceMCPProtocolError",
                               Plain("Response has no result"),
                               JSONRPC_INVALID_REQUEST))
   ELSE IF data.kind = "error"
      THEN LET code == IF data.code = None THEN -1 ELSE data.code[1]
           IN IF code \in PROTOCOL_ERROR_CODES
                 THEN Raised(ViceMCPError("ViceMCPProtocolError",
                                          data.msg, code))
                 ELSE Raised(ViceMCPError("ViceMCPToolError", data.msg, code))
   ELSE LET result == IF data.result = Absent THEN JNull ELSE data.result
        IN IF result.t = "dict" /\ HasKey(result, "content")
              THEN LET content == result.f.content
                   IN IF IsOneBlock(content)
                            /\ IsTextBlock(content.items[1])
                         THEN LET text == Get(content.items[1], "text",
                                              JStr(""))
                                  loaded == json_loads(text)
                              IN IF loaded.raised THEN Returned(text)
                                 ELSE Returned(loaded.value)
                         ELSE Returned(content)
              ELSE Returned(result)

\* data.get("result") is None when the key is absent
_unwrap_result(data) ==
   IF data.kind = "error"
      THEN LET code == IF data.code = None THEN -1 ELSE data.code[1]
           IN IF code \in PROTOCOL_ERROR_CODES
                 THEN Raised(ViceMCPError("ViceMCPProtocolError",
                                          data.msg, code))
                 ELSE Raised(ViceMCPError("ViceMCPToolError", data.msg, code))
   ELSE LET result == IF data.result = Absent THEN JNull ELSE data.result
        IN IF result.t = "dict" /\ HasKey(result, "content")
              THEN LET content == result.f.content
                   IN IF IsOneBlock(content)
                            /\ IsTextBlock(content.items[1])
                         THEN LET text == Get(content.items[1], "text",
                                              JStr(""))
                                  loaded == json_loads(text)
                              IN IF loaded.raised THEN Returned(text)
                                 ELSE Returned(loaded.value)
                         ELSE Returned(content)
              ELSE Returned(result)

\* body of the try block of one attempt: _http_post, _parse_response,
\* _unwrap_result
TryAttempt(resp) ==
   IF resp.kind = "raise" THEN Raised(Exc(resp.cls, resp.msg, resp.code))
   ELSE LET parsed == _parse_response(resp)
        IN IF parsed.raised THEN parsed ELSE _unwrap_result(parsed.value)

\* ------------------------------------------------------------------------
\* Inputs: what callers pass to call, what the transport answers, and how
\* the client is configured
\* ------------------------------------------------------------------------
Args0 == <<>>

CallInput(tool, args) == [tool |-> tool, args |-> args]

\* calls of the sequential specification: no parameters, all required
\* parameters, a missing required parameter, a wrong type, nothing at all,
\* an unexpected key, and a tool without a schema
CallInputs ==
   {CallInput("vice.ping", Args0),
    CallInput("vice.memory.read", ("address" :> "int") @@ ("size" :> "int")),
    CallInput("vice.memory.read", ("address" :> "str")),
    CallInput("vice.memory.read", ("address" :> "int") @@ ("size" :> "bool")),
    CallInput("vice.registers.set", Args0),
    CallInput("vice.memory.read",
              ("address" :> "int") @@ ("size" :> "int") @@ ("junk" :> "tuple")),
    CallInput(UnknownTool, ("x" :> "int"))}

\* a value of the declared kind
SampleValue(type_str) ==
   CASE type_str = "number" -> "int"
     [] type_str = "string" -> "str"
     [] type_str = "boolean" -> "bool"
     [] type_str = "array" -> "list"
     [] type_str = "object" -> "dict"
     [] OTHER -> "str"

\* every required parameter of the schema but the i-th, each with a value
\* of its declared kind
ArgsWithout(required, i) ==
   [p \in {required[j][1] : j \in DOMAIN required \ {i}} |->
      SampleValue(required[CHOOSE j \in DOMAIN required :
                              required[j][1] = p][2])]

\* for every registered tool and each of its required parameters, the call
\* that leaves out just that parameter
MissingInputs ==
   UNION {{CallInput(tool, ArgsWithout(TOOL_SCHEMAS[tool].required, i)) :
              i \in DOMAIN TOOL_SCHEMAS[tool].required} :
          tool \in DOMAIN TOOL_SCHEMAS}

ConcCallInputs == {CallInput("vice.ping", Args0)}

\* a result without a content member, as the direct encoding answers
DirectResult == JDict([pong |-> JBool(TRUE)])

\* the body {}: a JSON object with neither "error" nor "result"
EmptyObject == Resp("result", "", Plain(""), None, Absent)

\* str(exc) of the failures the transport and the server report
Msgs == {"m1", "m2"}

\* answers of the transport in the sequential specification
SeqResponses ==
   {Resp("raise", "ConnectionRefusedError", Plain(m), None, Absent) :
       m \in Msgs}
   \cup {Resp("raise", "TimeoutError", Plain("timed out"), None, Absent),
         Resp("raise", "HTTPError", Plain("HTTP Error 500"), Some(500),
              Absent),
         Resp("raise", "IncompleteRead", Plain("IncompleteRead"), None,
              Absent),
         Resp("badjson", "", Plain(""), None, Absent),
         Resp("nonobject", "", Plain(""), None, Absent)}
   \cup {Resp("error", "", Plain(m), Some(JSONRPC_METHOD_NOT_FOUND), Absent) :
            m \in Msgs}
   \cup {Resp("error", "", Plain("tool"), c, Absent) :
            c \in {None, Some(MCP_ERROR_NOT_IMPLEMENTED)}}
   \cup {Resp("result", "", Plain(""), None, r) :
            r \in {DirectResult, McpResult(<<TextBlock(JStr("{\"ok\":true}"))>>)}}
   \cup {EmptyObject}

\* answers of the transport when several callers share the client
ConcResponses ==
   {Resp("raise", "ConnectionRefusedError", Plain("m1"), None, Absent),
    Resp("error", "", Plain("m1"), Some(JSONRPC_METHOD_NOT_FOUND), Absent),
    Resp("result", "", Plain(""), None, DirectResult)}

\* elapsed times of a call, rounded, in hundredths of a millisecond
Durations == {0, 1250}

\* timeout and retry_delay in milliseconds (defaults 10.0 s and 0.5 s)
Timeouts == {0, 10000}

RetryDelays == {500}

\* ------------------------------------------------------------------------
\* State
\* ------------------------------------------------------------------------
VARIABLES
   max_retries, retry_delay, timeout, validate,  \* ViceMCPClient settings
   threads,        \* the caller threads of this run
   responses,      \* what the transport may answer in this run
   inputs,         \* what the callers may pass to call in this run
   persist_outcomes,  \* whether a write to the log file may succeed, fail
   durations,      \* elapsed times a call may measure in this run
   calls_left,     \* logical calls that may still be started
   _id_counter,    \* ViceMCPClient._id_counter
   _entries,       \* MCPReliabilityMonitor._entries
   durable,        \* lines of the reliability log file
   pc,             \* position of each thread
   tool_name, arguments,                \* parameters of call
   attempt, attempts, fallback_used, last_error,   \* locals of _call_raw
   id_read,        \* value of _id_counter loaded by _next_id
   entry,          \* the entry record is appending
   pending,        \* what follows record: the return value or the raise
   ret,            \* what call delivered to its caller
   sent,           \* history: the attempts of the current call
   logged,         \* history: the entries recorded by the current call
   mon_ret,        \* what the last call of a monitor method returned
   data, decoded,  \* a response body and what decoding it gave
   vtool, vparams, verrors   \* arguments and result of validate_params

cfgVars == <<max_retries, retry_delay, timeout, validate, threads, responses,
             inputs, persist_outcomes, durations>>

monVars == <<_entries, durable>>

callVars == <<tool_name, arguments>>

loopVars == <<attempt, attempts, fallback_used, last_error>>

auxVars == <<mon_ret, data, decoded, vtool, vparams, verrors>>

vars == <<cfgVars, calls_left, _id_counter, monVars, pc, callVars, loopVars,
          id_read, entry, pending, ret, sent, logged, auxVars>>

\* the entry built by record; duration_ms is round(duration_ms, 2) in
\* hundredths of a millisecond, the timestamp is left out
LogEntry(tool, duration_ms, success, error, error_code, retry_count, fb) ==
   [tool |-> tool, duration_ms |-> duration_ms, success |-> success,
    error |-> error, error_code |-> error_code,
    retry_count |-> retry_count, fallback_used |-> fb]

NoEntry == LogEntry("", 0, TRUE, None, None, 0, FALSE)

NoOutcome == Returned(Absent)

\* attempt is unbound until the for loop binds it
Unbound == -1

InitThreads ==
   /\ _id_counter = 0
   /\ _entries = <<>>
   /\ durable = <<>>
   /\ pc = [t \in Threads |-> "idle"]
   /\ tool_name = [t \in Threads |-> ""]
   /\ arguments = [t \in Threads |-> Args0]
   /\ attempt = [t \in Threads |-> Unbound]
   /\ attempts = [t \in Threads |-> 0]
   /\ fallback_used = [t \in Threads |-> FALSE]
   /\ last_error = [t \in Threads |-> NoError]
   /\ id_read = [t \in Threads |-> 0]
   /\ entry = [t \in Threads |-> NoEntry]
   /\ pending = [t \in Threads |-> NoOutcome]
   /\ ret = [t \in Threads |-> NoOutcome]
   /\ sent = [t \in Threads |-> <<>>]
   /\ logged = [t \in Threads |-> <<>>]

NoMonRet == [op |-> "none", n |-> 0, stats |-> <<>>, failures |-> <<>>]

\* nothing queried, decoded or validated yet
InitAux ==
   /\ mon_ret = NoMonRet
   /\ data = Resp("none", "", Plain(""), None, Absent)
   /\ decoded = NoOutcome
   /\ vtool = ""
   /\ vparams = Args0
   /\ verrors = <<>>

\* one caller, one logical call, every kind of answer; a validating client
\* is also given every call that leaves out one required parameter
Init ==
   /\ max_retries \in -1..MaxRetriesBound
   /\ retry_delay \in RetryDelays
   /\ timeout \in Timeouts
   /\ validate \in BOOLEAN
   /\ threads = {1}
   /\ responses = SeqResponses
   /\ inputs = IF validate THEN CallInputs \cup MissingInputs ELSE CallInputs
   /\ persist_outcomes = BOOLEAN
   /\ durations = {1250}
   /\ InitAux
   /\ calls_left = 1
   /\ InitThreads

\* several callers sharing one client
ConcInit ==
   /\ max_retries = ConcRetriesBound
   /\ retry_delay \in RetryDelays
   /\ timeout = 10000
   /\ validate = TRUE
   /\ threads = Threads
   /\ responses = ConcResponses
   /\ inputs = ConcCallInputs
   /\ persist_outcomes = {TRUE}
   /\ durations = {1250}
   /\ InitAux
   /\ calls_left = MaxCalls
   /\ InitThreads

\* ------------------------------------------------------------------------
\* Pieces of ViceMCPClient
\* ------------------------------------------------------------------------
\* what json.dumps writes for a value of each type
JsonKind(value) ==
   CASE value \in {"int", "float"} -> "number"
     [] value = "bool" -> "boolean"
     [] value = "str" -> "string"
     [] value \in {"list", "tuple"} -> "array"
     [] value = "dict" -> "object"
     [] OTHER -> "null"

\* json.dumps of the arguments: the same keys, each value in its JSON kind
json_dumps(args) == [key \in DOMAIN args |-> JsonKind(args[key])]

_build_mcp_payload(tool, args, id) ==
   [method |-> "tools/call", name |-> Some(tool),
    arguments |-> json_dumps(args), id |-> id]

\* variant: only the parameters of the schema are sent
_build_direct_payload_known_only(tool, args, id) ==
   [method |-> tool, name |-> None,
    arguments |-> json_dumps([key \in DOMAIN args \cap KnownNames(tool) |->
                                args[key]]),
    id |-> id]

_build_direct_payload(tool, args, id) ==
   [method |-> tool, name |-> None, arguments |-> json_dumps(args),
    id |-> id]

\* the payload of one attempt: wrapped until fallback_used is set
ChoosePayload(fb, tool, args, id) ==
   IF fb THEN _build_direct_payload(tool, args, id)
   ELSE _build_mcp_payload(tool, args, id)

EncodingOf(payload) ==
   IF payload.name = None THEN "direct" ELSE "wrapped"

\* variant: the timeout grows by half the base timeout per attempt
current_timeout_linear(base, k) == <<base * (2 + k), 2>>

\* self.timeout * (1.5 ** attempt), as the fraction <<num, den>>
current_timeout(base, k) == <<base * Pow(3, k), Pow(2, k)>>


\* variant: no except clause for ViceMCPToolError, so that the generic
\* clause catches it
Handler_no_tool_clause(exc) ==
   CASE exc.cls = "ViceMCPProtocolError" -> "protocol"
     [] IsOSError(exc.cls) -> "oserror"
     [] OTHER -> "exception"

\* the except clause that catches an exception raised in the try block
Handler(exc) ==
   CASE exc.cls = "ViceMCPProtocolError" -> "protocol"
     [] exc.cls = "ViceMCPToolError" -> "tool"
     [] IsOSError(exc.cls) -> "oserror"
     [] OTHER -> "exception"

\* variant: the counter is left as it is
Incremented_not(n) == n

\* the value stored by self._id_counter += 1
Incremented(n) == n + 1

\* variant: the flag is kept from the previous call of the caller
InitialFallbackUsed_kept(previous) == previous

\* fallback_used = False at the start of _call_raw
InitialFallbackUsed(previous) == FALSE

\* variant: the loop has no end (while True)
HasNext_always(n, retries) == TRUE

\* variant: the loop runs over range(max_retries + 2)
HasNext_one_more(n, retries) == n <= retries + 1

\* range(self.max_retries + 1) has an element left after n iterations
HasNext(n, retries) == n <= retries

\* variant: the delay is computed from the index of the next attempt
BackoffDelay_next(delay, k) == delay * Pow(2, k + 1)

\* variant: every protocol error switches the encoding
AfterProtocolError_toggle(fb, k, retries) ==
   IF ~fb THEN [fallback_used |-> TRUE, pc |-> "loop"]
   ELSE IF k < retries THEN [fallback_used |-> FALSE, pc |-> "sleep"]
   ELSE [fallback_used |-> FALSE, pc |-> "loop"]

\* self.retry_delay * (2 ** attempt)
BackoffDelay(delay, k) == delay * Pow(2, k)

\* variant: the first protocol error backs off like the later ones
AfterProtocolError_backoff(fb, k, retries) ==
   IF k < retries THEN [fallback_used |-> TRUE, pc |-> "sleep"]
   ELSE [fallback_used |-> TRUE, pc |-> "loop"]

\* where the loop goes after a protocol error: the new fallback_used and
\* the next position
AfterProtocolError(fb, k, retries) ==
   IF ~fb THEN [fallback_used |-> TRUE, pc |-> "loop"]
   ELSE IF k < retries THEN [fallback_used |-> fb, pc |-> "sleep"]
   ELSE [fallback_used |-> fb, pc |-> "loop"]

\* variant: the last retry is not taken
AfterOSError_short(k, retries) ==
   IF k < retries - 1 THEN "sleep" ELSE "break"

\* where the loop goes after an OSError
AfterOSError(k, retries) == IF k < retries THEN "sleep" ELSE "loop"

\* where the loop goes after any other exception
AfterException(k, retries) == IF k < retries THEN "sleep" ELSE "break"

\* str(last_error) if last_error else None
ErrorText(err) == IF err = NoError THEN None ELSE Some(err.msg)

SuccessEntry(tool, elapsed, k, fb) ==
   LogEntry(tool, elapsed, TRUE, None, None, k, fb)

ToolErrorEntry(tool, elapsed, err, k, fb) ==
   LogEntry(tool, elapsed, FALSE, ErrorText(err), err.code, k, fb)

\* variant: the entry does not tell the failure
ExhaustedEntry_unknown(tool, elapsed, err, n, fb) ==
   LogEntry(tool, elapsed, FALSE, Some(Plain("Unknown error")), None, n - 1,
            fb)

\* variant: retry_count is the number of attempts
ExhaustedEntry_attempts(tool, elapsed, err, n, fb) ==
   LogEntry(tool, elapsed, FALSE,
            IF err = NoError THEN Some(Plain("Unknown error"))
            ELSE Some(err.msg),
            err.code, n, fb)

ExhaustedEntry(tool, elapsed, err, n, fb) ==
   LogEntry(tool, elapsed, FALSE,
            IF err = NoError THEN Some(Plain("Unknown error"))
            ELSE Some(err.msg),
            err.code, n - 1, fb)

\* variant: the last error is raised as it is
ExhaustedError_reraise(err, n) == err

\* variant: every exception that is not a ViceMCPError counts as a failed
\* connection
ExhaustedError_two_way(err, n) ==
   IF IsViceMCPError(err.cls) THEN err
   ELSE ViceMCPError("ViceMCPConnectionError",
                     Composed("Failed to connect after", n, err.msg.text),
                     0)

\* the error raised once all retries are exhausted
ExhaustedError(err, n) ==
   IF IsViceMCPError(err.cls) THEN err
   ELSE IF IsOSError(err.cls)
      THEN ViceMCPError("ViceMCPConnectionError",
                        Composed("Failed to connect after", n, err.msg.text),
                        0)
   ELSE ViceMCPError("ViceMCPError",
                     Composed("Call failed after", n,
                              IF err = NoError THEN "Unknown error"
                              ELSE err.msg.text),
                     0)

\* errors of call's validation step: none when validation is switched off
CallErrors(v, tool, args) ==
   IF v THEN validate_params(tool, args) ELSE <<>>

ValidationError(errors) ==
   ViceMCPError("ViceMCPValidationError",
                Composed("joined errors", Len(errors), ""),
                JSONRPC_INVALID_PARAMS)

\* variant: the new entry is put in front of the log
record_append_front(entries, e) == <<e>> \o entries

\* variant: the new entry replaces the log
record_append_replace(entries, e) == <<e>>

\* variant: the entry is appended once more
record_append_twice(entries, e) == Append(Append(entries, e), e)

\* self._entries.append(entry)
record_append(entries, e) == Append(entries, e)

\* variant: the OSError of a failed write leaves record
AfterWrite_propagate(ok, after) ==
   IF ok THEN after
   ELSE Raised(Exc("PermissionError", Plain("write failed"), None))

\* what follows the file write of record: the OSError of a failed write is
\* swallowed, and _call_raw goes on to the return or raise it was about to do
AfterWrite(ok, after) == after

\* one record of the history of attempts
SentRecord(k, payload, tmo, resp, outcome, exc) ==
   [attempt |-> k, payload |-> payload, timeout |-> tmo, resp |-> resp,
    outcome |-> outcome, exc |-> exc, sleep |-> None]

\* ------------------------------------------------------------------------
\* Actions
\* ------------------------------------------------------------------------
\* call: validate, then either raise ViceMCPValidationError or enter
\* _call_raw
Call(t) ==
   /\ t \in threads
   /\ pc[t] \in {"idle", "done"}
   /\ calls_left > 0
   /\ \E inp \in inputs :
         LET errors == CallErrors(validate, inp.tool, inp.args)
         IN /\ tool_name' = [tool_name EXCEPT ![t] = inp.tool]
            /\ arguments' = [arguments EXCEPT ![t] = inp.args]
            /\ IF errors # <<>>
                  THEN /\ pc' = [pc EXCEPT ![t] = "done"]
                       /\ ret' = [ret EXCEPT ![t] =
                                     Raised(ValidationError(errors))]
                  ELSE /\ pc' = [pc EXCEPT ![t] = "loop"]
                       /\ ret' = [ret EXCEPT ![t] = NoOutcome]
   /\ calls_left' = calls_left - 1
   /\ attempt' = [attempt EXCEPT ![t] = Unbound]
   /\ attempts' = [attempts EXCEPT ![t] = 0]
   /\ fallback_used' = [fallback_used EXCEPT ![t] = InitialFallbackUsed(@)]
   /\ last_error' = [last_error EXCEPT ![t] = NoError]
   /\ sent' = [sent EXCEPT ![t] = <<>>]
   /\ logged' = [logged EXCEPT ![t] = <<>>]
   /\ UNCHANGED <<cfgVars, auxVars, _id_counter, monVars, id_read, entry, pending>>

\* the for loop yields the next attempt; building the payload starts with
\* _next_id loading self._id_counter
LoopNext(t) ==
   /\ pc[t] = "loop"
   /\ HasNext(attempts[t], max_retries)
   /\ attempts[t] < MaxAttempts
   /\ attempt' = [attempt EXCEPT ![t] = attempts[t]]
   /\ attempts' = [attempts EXCEPT ![t] = attempts[t] + 1]
   /\ id_read' = [id_read EXCEPT ![t] = _id_counter]
   /\ pc' = [pc EXCEPT ![t] = "id_store"]
   /\ UNCHANGED <<cfgVars, auxVars, calls_left, _id_counter, monVars, callVars,
                  fallback_used, last_error, entry, pending, ret, sent,
                  logged>>

\* _next_id stores the incremented counter
NextIdStore(t) ==
   /\ pc[t] = "id_store"
   /\ _id_counter' = Incremented(id_read[t])
   /\ pc' = [pc EXCEPT ![t] = "id_load"]
   /\ UNCHANGED <<cfgVars, auxVars, calls_left, monVars, callVars, loopVars, id_read,
                  entry, pending, ret, sent, logged>>

\* _next_id returns self._id_counter; the payload is sent and the answer is
\* handled by the try block and its except clauses
Attempt(t) ==
   /\ pc[t] = "id_load"
   /\ \E resp \in responses, elapsed \in durations :
         LET k == attempt[t]
             fb == fallback_used[t]
             payload == ChoosePayload(fb, tool_name[t], arguments[t],
                                      _id_counter)
             out == TryAttempt(resp)
             h == IF out.raised THEN Handler(out.exc) ELSE "ok"
             rec == SentRecord(k, payload, current_timeout(timeout, k), resp,
                              h, out.exc)
             prot == AfterProtocolError(fb, k, max_retries)
         IN /\ sent' = [sent EXCEPT ![t] = Append(@, rec)]
            /\ CASE h = "ok" ->
                      /\ entry' = [entry EXCEPT ![t] =
                                      SuccessEntry(tool_name[t], elapsed, k,
                                                   fb)]
                      /\ pending' = [pending EXCEPT ![t] =
                                        Returned(out.value)]
                      /\ pc' = [pc EXCEPT ![t] = "record"]
                      /\ UNCHANGED <<fallback_used, last_error>>
                 [] h = "protocol" ->
                      /\ last_error' = [last_error EXCEPT ![t] = out.exc]
                      /\ fallback_used' =
                            [fallback_used EXCEPT ![t] = prot.fallback_used]
                      /\ pc' = [pc EXCEPT ![t] = prot.pc]
                      /\ UNCHANGED <<entry, pending>>
                 [] h = "tool" ->
                      /\ entry' = [entry EXCEPT ![t] =
                                      ToolErrorEntry(tool_name[t], elapsed,
                                                     last_error[t], k, fb)]
                      /\ pending' = [pending EXCEPT ![t] = Raised(out.exc)]
                      /\ pc' = [pc EXCEPT ![t] = "record"]
                      /\ UNCHANGED <<fallback_used, last_error>>
                 [] h = "oserror" ->
                      /\ last_error' = [last_error EXCEPT ![t] = out.exc]
                      /\ pc' = [pc EXCEPT ![t] = AfterOSError(k, max_retries)]
                      /\ UNCHANGED <<fallback_used, entry, pending>>
                 [] OTHER ->
                      /\ last_error' = [last_error EXCEPT ![t] = out.exc]
                      /\ pc' = [pc EXCEPT ![t] =
                                   AfterException(k, max_retries)]
                      /\ UNCHANGED <<fallback_used, entry, pending>>
   /\ UNCHANGED <<cfgVars, auxVars, calls_left, _id_counter, monVars, callVars,
                  attempt, attempts, id_read, ret, logged>>

\* time.sleep(self.retry_delay * (2 ** attempt)) returns
Sleep(t) ==
   /\ pc[t] = "sleep"
   /\ sent' = [sent EXCEPT ![t][Len(sent[t])].sleep =
                  Some(BackoffDelay(retry_delay, attempt[t]))]
   /\ pc' = [pc EXCEPT ![t] = "loop"]
   /\ UNCHANGED <<cfgVars, auxVars, calls_left, _id_counter, monVars, callVars,
                  loopVars, id_read, entry, pending, ret, logged>>

\* the loop is over (range exhausted, or break): build the failed entry and
\* the error to raise
Exhausted(t) ==
   /\ \/ pc[t] = "loop" /\ ~HasNext(attempts[t], max_retries)
      \/ pc[t] = "break"
   /\ \E elapsed \in durations :
         entry' = [entry EXCEPT ![t] =
                      ExhaustedEntry(tool_name[t], elapsed, last_error[t],
                                     attempts[t], fallback_used[t])]
   /\ pending' = [pending EXCEPT ![t] =
                     Raised(ExhaustedError(last_error[t], attempts[t]))]
   /\ pc' = [pc EXCEPT ![t] = "record"]
   /\ UNCHANGED <<cfgVars, auxVars, calls_left, _id_counter, monVars, callVars,
                  loopVars, id_read, ret, sent, logged>>

\* record appends the entry to the in-memory log
RecordAppend(t) ==
   /\ pc[t] = "record"
   /\ _entries' = record_append(_entries, entry[t])
   /\ logged' = [logged EXCEPT ![t] = Append(@, entry[t])]
   /\ pc' = [pc EXCEPT ![t] = "persist"]
   /\ UNCHANGED <<cfgVars, auxVars, calls_left, _id_counter, durable, callVars,
                  loopVars, id_read, entry, pending, ret, sent>>

\* record writes the line to the log file, or the write fails and the
\* OSError is swallowed; then _call_raw returns or raises
RecordPersist(t) ==
   /\ pc[t] = "persist"
   /\ \E ok \in persist_outcomes :
         /\ durable' = IF ok THEN Append(durable, entry[t]) ELSE durable
         /\ ret' = [ret EXCEPT ![t] = AfterWrite(ok, pending[t])]
   /\ pc' = [pc EXCEPT ![t] = "done"]
   /\ UNCHANGED <<cfgVars, auxVars, calls_left, _id_counter, _entries, callVars,
                  loopVars, id_read, entry, pending, sent, logged>>

\* ------------------------------------------------------------------------
\* MCPReliabilityMonitor used on its own
\* ------------------------------------------------------------------------
\* longest log of the monitor specification
MaxLog == 3

\* largest n passed to get_recent_failures, besides the default
MaxRecentN == 2

\* variant: the digits beyond the last one kept are cut off
RoundHalfEven_truncate(num, den) == num \div den

\* round(num / den, digits) on the scaled integers: nearest, ties to even
RoundHalfEven(num, den) ==
   LET q == num \div den
       r == num % den
   IN IF 2 * r < den THEN q
      ELSE IF 2 * r > den THEN q + 1
      ELSE IF q % 2 = 0 THEN q ELSE q + 1

RECURSIVE SumDurations(_)
SumDurations(entries) ==
   IF entries = <<>> THEN 0
   ELSE Head(entries).duration_ms + SumDurations(Tail(entries))

IsFailure(e) == ~e.success

\* [e for e in self._entries if not e["success"]]
Failures(entries) == SelectSeq(entries, IsFailure)

\* variant: the count of a tool is set to 1 instead of incremented
FailuresByTool_one(failures) ==
   [tl \in {failures[i].tool : i \in DOMAIN failures} |-> 1]

\* the dict built by the loop over failures
FailuresByTool(failures) ==
   [tl \in {failures[i].tool : i \in DOMAIN failures} |->
      Cardinality({i \in DOMAIN failures : failures[i].tool = tl})]

Stats(total, failures, avg, rate, by_tool) ==
   [total_calls |-> total, failures |-> failures, avg_latency_ms |-> avg,
    failure_rate |-> rate, failures_by_tool |-> by_tool]

\* variant: no early return for the empty log, so that the averages divide
\* by zero
get_stats_unguarded(entries) ==
   LET total == Len(entries)
       failures == Failures(entries)
   IN IF total = 0 THEN [raised |-> "ZeroDivisionError"]
      ELSE Stats(total, Len(failures),
                 RoundHalfEven(SumDurations(entries), total),
                 RoundHalfEven(Len(failures) * 10000, total),
                 FailuresByTool(failures))

\* avg_latency_ms in hundredths of a millisecond (round(..., 2)),
\* failure_rate in ten-thousandths (round(..., 4))
get_stats(entries) ==
   LET total == Len(entries)
       failures == Failures(entries)
   IN IF total = 0 THEN Stats(0, 0, 0, 0, <<>>)
      ELSE Stats(total, Len(failures),
                 RoundHalfEven(SumDurations(entries), total),
                 RoundHalfEven(Len(failures) * 10000, total),
                 FailuresByTool(failures))

\* failures[-n:]: the slice starts at len - n for n > 0 (at 0 if that is
\* negative), at 0 for n = 0, and at -n for n < 0
get_recent_failures(entries, n) ==
   LET failures == Failures(entries)
       len == Len(failures)
       start == IF n > 0 THEN (IF len - n > 0 THEN len - n ELSE 0)
                ELSE IF -n < len THEN -n ELSE len
   IN SubSeq(failures, start + 1, len)

MonRet(op, n, stats, failures) ==
   [op |-> op, n |-> n, stats |-> stats, failures |-> failures]

MonTools == {"vice.ping", "vice.memory.read"}

RecentNs == 0..MaxRecentN \cup {10}

\* the entries recorded in the monitor specification
MonEntries ==
   {LogEntry(tl, d, TRUE, None, None, 0, FALSE) :
       tl \in MonTools, d \in Durations}
   \cup {LogEntry(tl, d, FALSE, Some(Plain("m1")),
                  Some(MCP_ERROR_NOT_IMPLEMENTED), 0, FALSE) :
            tl \in MonTools, d \in Durations}

engineVars == <<max_retries, retry_delay, timeout, validate, threads,
                responses, inputs, durations, calls_left, _id_counter, pc,
                callVars, loopVars, id_read, entry, pending, ret, sent,
                logged>>

\* no client is calling: the configuration is the default one and every
\* caller is idle
NoClient ==
   /\ max_retries = 0
   /\ retry_delay = 500
   /\ timeout = 10000
   /\ validate = TRUE
   /\ threads = {}
   /\ responses = {}
   /\ inputs = {}
   /\ persist_outcomes = BOOLEAN
   /\ durations = Durations
   /\ calls_left = 0
   /\ InitThreads

\* a monitor with an empty log and no client calling it
MonInit == NoClient /\ InitAux

\* record: append the entry, then write it to the file unless that fails
MonRecord ==
   /\ Len(_entries) < MaxLog
   /\ \E e \in MonEntries, ok \in persist_outcomes :
         /\ e.duration_ms \in durations
         /\ _entries' = record_append(_entries, e)
         /\ durable' = IF ok THEN Append(durable, e) ELSE durable
   /\ mon_ret' = MonRet("record", 0, <<>>, <<>>)
   /\ UNCHANGED <<engineVars, persist_outcomes, data, decoded, vtool,
                  vparams, verrors>>

MonGetStats ==
   /\ mon_ret' = MonRet("get_stats", 0, get_stats(_entries), <<>>)
   /\ UNCHANGED <<engineVars, persist_outcomes, monVars, data, decoded,
                  vtool, vparams, verrors>>

MonGetRecentFailures ==
   /\ \E n \in RecentNs :
         mon_ret' = MonRet("get_recent_failures", n, <<>>,
                           get_recent_failures(_entries, n))
   /\ UNCHANGED <<engineVars, persist_outcomes, monVars, data, decoded,
                  vtool, vparams, verrors>>

MonNext == MonRecord \/ MonGetStats \/ MonGetRecentFailures

\* ------------------------------------------------------------------------
\* get_stats of one thread while another thread records
\* ------------------------------------------------------------------------
\* the dict get_stats returns for a non-empty log, from its locals: total,
\* failures, and the log as it is when durations is built
StatsOf(total, failures, entries) ==
   Stats(total, Len(failures),
         RoundHalfEven(SumDurations(entries), total),
         RoundHalfEven(Len(failures) * 10000, total),
         FailuresByTool(failures))

\* record called by the other thread
ConcurrentRecord ==
   /\ Len(_entries) < MaxLog
   /\ \E e \in MonEntries, ok \in persist_outcomes :
         /\ e.duration_ms \in durations
         /\ _entries' = record_append(_entries, e)
         /\ durable' = IF ok THEN Append(durable, e) ELSE durable
   /\ UNCHANGED <<engineVars, persist_outcomes, auxVars>>

\* total = len(self._entries), and the early return for an empty log
StatsLen ==
   /\ mon_ret.op \in {"none", "get_stats"}
   /\ mon_ret' = IF Len(_entries) = 0
                    THEN MonRet("get_stats", 0, get_stats(_entries), <<>>)
                 ELSE MonRet("stats_total", Len(_entries), <<>>, <<>>)
   /\ UNCHANGED <<engineVars, persist_outcomes, monVars, data, decoded,
                  vtool, vparams, verrors>>

\* failures = [e for e in self._entries if not e["success"]]
StatsFailures ==
   /\ mon_ret.op = "stats_total"
   /\ mon_ret' = MonRet("stats_failures", mon_ret.n, <<>>,
                        Failures(_entries))
   /\ UNCHANGED <<engineVars, persist_outcomes, monVars, data, decoded,
                  vtool, vparams, verrors>>

\* durations = [...], the loop over failures, and the return
StatsReturn ==
   /\ mon_ret.op = "stats_failures"
   /\ mon_ret' = MonRet("get_stats", mon_ret.n,
                        StatsOf(mon_ret.n, mon_ret.failures, _entries),
                        mon_ret.failures)
   /\ UNCHANGED <<engineVars, persist_outcomes, monVars, data, decoded,
                  vtool, vparams, verrors>>

StatsNext == ConcurrentRecord \/ StatsLen \/ StatsFailures \/ StatsReturn

StatsSpec == MonInit /\ [][StatsNext]_vars

MonSpec == MonInit /\ [][MonNext]_vars

\* ------------------------------------------------------------------------
\* Decoding of one response on its own
\* ------------------------------------------------------------------------
\* error codes around both ends of the protocol band, the application
\* codes, and codes far from both
DecodeCodes ==
   (-32801..-32598) \cup (MCP_ERROR_SNAPSHOT_FAILED..MCP_ERROR_NOT_IMPLEMENTED)
      \cup {-1, 0, 500}

\* texts of a content block that are not JSON
PlainTexts == {"pong", "", "{oops"}

\* texts of a content block that are not strings
NonStringTexts == {JNum(5), JNull}

\* results whose content is one block of type "text"
TextResults ==
   {McpResult(<<TextBlock(JStr(s))>>) : s \in DOMAIN JsonTexts \cup PlainTexts}
   \cup {McpResult(<<TextBlock(x)>>) : x \in NonStringTexts}
   \cup {McpResult(<<JDict([type |-> JStr("text")])>>)}

\* results whose content is anything else
OtherContentResults ==
   {McpContent(c) :
       c \in {JStr("5"), JNull, JList(<<>>),
              JList(<<TextBlock(JStr("5")), TextBlock(JStr("5"))>>),
              JList(<<JStr("5")>>),
              JList(<<JDict([type |-> JStr("image"), text |-> JStr("5")])>>),
              JList(<<JDict([text |-> JStr("5")])>>),
              TextBlock(JStr("5"))}}

\* results without a content member, and a response without a result
NoContentResults ==
   {Absent, JNull, JStr("5"), JNum(5), JBool(TRUE),
    JList(<<TextBlock(JStr("5"))>>), DirectResult, TextBlock(JStr("5"))}

\* the responses decoded in the decoding specification
DecodeInputs ==
   {Resp("error", "", Plain("m1"), Some(c), Absent) : c \in DecodeCodes}
   \cup {Resp("error", "", Plain("m1"), None, Absent),
         Resp("badjson", "", Plain(""), None, Absent),
         Resp("nonobject", "", Plain(""), None, Absent),
         Resp("raise", "TimeoutError", Plain("timed out"), None, Absent)}
   \cup {Resp("result", "", Plain(""), None, r) :
            r \in TextResults \cup OtherContentResults \cup NoContentResults}

\* one response has arrived and is not decoded yet
DecodeInit ==
   /\ NoClient
   /\ mon_ret = NoMonRet
   /\ data \in DecodeInputs
   /\ decoded = NoOutcome
   /\ vtool = ""
   /\ vparams = Args0
   /\ verrors = <<>>

\* _unwrap_result(_parse_response(body))
Decode ==
   /\ decoded = NoOutcome
   /\ decoded' = TryAttempt(data)
   /\ UNCHANGED <<engineVars, persist_outcomes, monVars, mon_ret, data,
                  vtool, vparams, verrors>>

DecodeNext == Decode

DecodeSpec == DecodeInit /\ [][DecodeNext]_vars

\* ------------------------------------------------------------------------
\* validate_params on its own
\* ------------------------------------------------------------------------
\* most keys of an argument map besides the required parameters
MaxExtra == 1

\* the keys a caller passes: those of the schema and one it does not name
ArgKeys(tool) == KnownNames(tool) \cup {"junk"}

\* a caller has named a tool and has passed no argument yet
ValidateInit ==
   /\ NoClient
   /\ mon_ret = NoMonRet
   /\ data = Resp("none", "", Plain(""), None, Absent)
   /\ decoded = NoOutcome
   /\ vtool \in DOMAIN TOOL_SCHEMAS \cup {UnknownTool}
   /\ vparams = Args0
   /\ verrors = None

\* the caller adds one keyword argument
AddArg ==
   /\ verrors = None
   /\ \E key \in ArgKeys(vtool) \ DOMAIN vparams, value \in PyTypes :
         /\ \/ key \in RequiredNames(vtool)
            \/ Cardinality(DOMAIN vparams \ RequiredNames(vtool)) < MaxExtra
         /\ vparams' = vparams @@ (key :> value)
   /\ UNCHANGED <<engineVars, persist_outcomes, monVars, mon_ret, data,
                  decoded, vtool, verrors>>

\* errors = validate_params(tool_name, kwargs)
Validate ==
   /\ verrors = None
   /\ verrors' = Some(validate_params(vtool, vparams))
   /\ UNCHANGED <<engineVars, persist_outcomes, monVars, mon_ret, data,
                  decoded, vtool, vparams>>

ValidateNext == AddArg \/ Validate

ValidateSpec == ValidateInit /\ [][ValidateNext]_vars

Next ==
   \E t \in Threads :
      \/ Call(t)
      \/ LoopNext(t)
      \/ NextIdStore(t)
      \/ Attempt(t)
      \/ Sleep(t)
      \/ Exhausted(t)
      \/ RecordAppend(t)
      \/ RecordPersist(t)

Spec == Init /\ [][Next]_vars

ConcSpec == ConcInit /\ [][Next]_vars

\* one answer of the transport for each way an attempt can end
LiveResponses ==
   {Resp("raise", "ConnectionRefusedError", Plain("m1"), None, Absent),
    Resp("raise", "IncompleteRead", Plain("IncompleteRead"), None, Absent),
    Resp("error", "", Plain("m1"), Some(JSONRPC_METHOD_NOT_FOUND), Absent),
    Resp("error", "", Plain("tool"), Some(MCP_ERROR_NOT_IMPLEMENTED),
         Absent),
    Resp("result", "", Plain(""), None, DirectResult)}

\* a call that passes validation and one that does not
LiveCallInputs ==
   {CallInput("vice.ping", Args0), CallInput("vice.registers.set", Args0)}

\* one caller, one call, every retry budget
LiveInit ==
   /\ max_retries \in -1..MaxRetriesBound
   /\ retry_delay \in RetryDelays
   /\ timeout = 10000
   /\ validate = TRUE
   /\ threads = {1}
   /\ responses = LiveResponses
   /\ inputs = LiveCallInputs
   /\ persist_outcomes = BOOLEAN
   /\ durations = {1250}
   /\ InitAux
   /\ calls_left = 1
   /\ InitThreads

\* a step of _call_raw: every statement of a running call completes, the
\* transport send and the back-off sleep included
Progress ==
   \E t \in Threads :
      \/ LoopNext(t)
      \/ NextIdStore(t)
      \/ Attempt(t)
      \/ Sleep(t)
      \/ Exhausted(t)
      \/ RecordAppend(t)
      \/ RecordPersist(t)

\* a call in progress keeps running
FairSpec == LiveInit /\ [][Next]_vars /\ WF_vars(Progress)

\* ------------------------------------------------------------------------
\* Properties
\* ------------------------------------------------------------------------
\* what the answers carrying a result decode to
DecodedResults ==
   {_unwrap_result(r).value : r \in {x \in responses : x.kind = "result"}}

\* positions inside the retry loop of _call_raw
InLoop == {"loop", "id_store", "id_load", "sleep", "break"}

\* the call of thread t ended in client-side validation
Rejected(t) ==
   pc[t] = "done" /\ ret[t].raised
      /\ ret[t].exc.cls = "ViceMCPValidationError"

\* the call of thread t went through _call_raw and has returned or raised
Finished(t) == pc[t] = "done" /\ ~Rejected(t)

Outcomes(t) == [i \in DOMAIN sent[t] |-> sent[t][i].outcome]

\* C1: a logical call executed by _call_raw appends exactly one LogEntry,
\* whatever its attempts answered: none while the loop is still running,
\* one from the terminal outcome on, appended before the call returns or
\* raises and telling its outcome; with a single caller the log is exactly
\* that entry.
C1_OneEntryPerCall ==
   \A t \in threads :
      /\ pc[t] \in InLoop \cup {"record"} => logged[t] = <<>>
      /\ pc[t] = "persist" \/ Finished(t) =>
            /\ Len(logged[t]) = 1
            /\ logged[t][1] = entry[t]
            /\ logged[t][1].success = ~pending[t].raised
      /\ Finished(t) => ret[t] = pending[t]
      /\ threads = {1} /\ pc[t] # "idle" /\ ~Rejected(t) =>
            _entries = logged[t]

C1_Witness ==
   /\ Finished(1)
   /\ Len(sent[1]) = 3
   /\ Outcomes(1) = <<"oserror", "protocol", "ok">>
   /\ Len(_entries) = 1

\* C2: with max_retries >= 1, when the first attempt (wrapped) fails with a
\* protocol-band error and the second succeeds, the second attempt is sent
\* direct, no sleep separates them, the call returns the decoded result and
\* its single LogEntry has success, fallback_used and retry_count = 1.
C2_FallbackThenSuccess ==
   \A t \in threads :
      (/\ max_retries >= 1
       /\ Len(sent[t]) = 2
       /\ sent[t][1].outcome = "protocol"
       /\ sent[t][1].exc.code[1] \in PROTOCOL_ERROR_CODES
       /\ sent[t][2].outcome = "ok")
      => /\ EncodingOf(sent[t][1].payload) = "wrapped"
         /\ EncodingOf(sent[t][2].payload) = "direct"
         /\ sent[t][1].sleep = None
         /\ pc[t] \in {"record", "persist", "done"}
         /\ ~pending[t].raised
         /\ pending[t].value \in DecodedResults
         /\ pc[t] = "done" =>
               /\ ret[t] = pending[t]
               /\ Len(logged[t]) = 1
               /\ logged[t][1].success
               /\ logged[t][1].fallback_used
               /\ logged[t][1].retry_count = 1

C2_Witness ==
   /\ pc[1] = "done"
   /\ max_retries >= 1
   /\ Outcomes(1) = <<"protocol", "ok">>
   /\ sent[1][1].exc.code = Some(JSONRPC_METHOD_NOT_FOUND)
   /\ ret[1] = Returned(JDict([ok |-> JBool(TRUE)]))

\* C3: a tool-level error is never retried: whichever attempt k decodes it,
\* it is the last attempt, no sleep follows it, the call raises that
\* ViceMCPToolError and records exactly one LogEntry with success = false
\* and retry_count = k (one attempt and retry_count = 0 when attempt 0 gets
\* it).
C3_ToolErrorNotRetried ==
   \A t \in threads :
      \A i \in DOMAIN sent[t] :
         sent[t][i].outcome = "tool" \/
            sent[t][i].exc.cls = "ViceMCPToolError"
         => /\ i = Len(sent[t])
            /\ sent[t][i].attempt = i - 1
            /\ sent[t][i].sleep = None
            /\ pc[t] \in {"record", "persist", "done"}
            /\ pending[t] = Raised(sent[t][i].exc)
            /\ sent[t][i].exc.code[1] \notin PROTOCOL_ERROR_CODES
            /\ pc[t] = "done" =>
                  /\ ret[t] = Raised(sent[t][i].exc)
                  /\ Len(logged[t]) = 1
                  /\ ~logged[t][1].success
                  /\ logged[t][1].retry_count = i - 1

C3_Witness ==
   /\ pc[1] = "done"
   /\ Outcomes(1) = <<"oserror", "tool">>
   /\ ret[1].exc.cls = "ViceMCPToolError"
   /\ logged[1][1].retry_count = 1

\* the attempts of thread t so far all failed with a refused connection
AllRefused(t) ==
   /\ sent[t] # <<>>
   /\ \A i \in DOMAIN sent[t] : sent[t][i].exc.cls = "ConnectionRefusedError"

\* C4: when every attempt fails with a connection error and
\* max_retries = R >= 0, the call makes exactly R + 1 attempts, then raises
\* ViceMCPConnectionError whose message contains the message of the last
\* transport failure, and records one failed LogEntry with retry_count = R.
C4_ConnectionExhaustion ==
   \A t \in threads :
      max_retries >= 0 /\ AllRefused(t) =>
         /\ Len(sent[t]) <= max_retries + 1
         /\ pc[t] \in {"record", "persist", "done"} =>
               /\ Len(sent[t]) = max_retries + 1
               /\ pending[t].raised
               /\ pending[t].exc.cls = "ViceMCPConnectionError"
               /\ pending[t].exc.msg.text =
                     sent[t][Len(sent[t])].exc.msg.text
         /\ pc[t] = "done" =>
               /\ ret[t] = pending[t]
               /\ Len(logged[t]) = 1
               /\ ~logged[t][1].success
               /\ logged[t][1].retry_count = max_retries

C4_Witness ==
   /\ pc[1] = "done"
   /\ max_retries = MaxRetriesBound
   /\ AllRefused(1)
   /\ sent[1][1].exc.msg = Plain("m2")
   /\ ret[1].exc.msg = Composed("Failed to connect after",
                                MaxRetriesBound + 1, "m1")

\* C5: the timeout passed to the transport on attempt k is
\* timeout * 1.5^k, and with timeout > 0 it strictly exceeds that of the
\* previous attempt whatever made the previous attempt fail.
C5_TimeoutGrowth ==
   \A t \in threads :
      \A i \in DOMAIN sent[t] :
         LET num == sent[t][i].timeout[1]
             den == sent[t][i].timeout[2]
         IN /\ den > 0
            /\ num * Pow(2, i - 1) = timeout * Pow(3, i - 1) * den
            /\ i > 1 /\ timeout > 0 =>
                  num * sent[t][i - 1].timeout[2]
                     > sent[t][i - 1].timeout[1] * den

C5_Witness ==
   /\ timeout > 0
   /\ Len(sent[1]) = 3
   /\ sent[1][1].outcome = "protocol" /\ sent[1][1].sleep = None
   /\ sent[1][2].outcome = "protocol" /\ sent[1][2].sleep # None
   /\ sent[1][3].timeout = <<9 * timeout, 4>>

\* C6: request ids are pairwise unique: no two attempts carry the same id,
\* whether they belong to the same logical call or to calls of different
\* threads, in any interleaving of the threads inside _next_id.
C6_RequestIdsUnique ==
   \A t1 \in threads, t2 \in threads :
      \A i \in DOMAIN sent[t1], j \in DOMAIN sent[t2] :
         t1 # t2 \/ i # j => sent[t1][i].payload.id # sent[t2][j].payload.id

\* some required parameter of a registered tool is missing from the
\* arguments of thread t
MissingRequired(t) ==
   /\ tool_name[t] \in DOMAIN TOOL_SCHEMAS
   /\ \E i \in DOMAIN TOOL_SCHEMAS[tool_name[t]].required :
         TOOL_SCHEMAS[tool_name[t]].required[i][1] \notin DOMAIN arguments[t]

\* C7: with validation enabled, a call of a registered tool whose arguments
\* lack a required parameter gets a non-empty violation list with a
\* "missing" violation, and call raises ViceMCPValidationError with no
\* network attempt, no request id consumed and no retry.
C7_MissingRequiredRejected ==
   \A t \in threads :
      validate /\ pc[t] # "idle" /\ MissingRequired(t) =>
         /\ validate_params(tool_name[t], arguments[t]) # <<>>
         /\ \E i \in DOMAIN validate_params(tool_name[t], arguments[t]) :
               validate_params(tool_name[t], arguments[t])[i].kind = "missing"
         /\ Rejected(t)
         /\ ret[t].exc.code = Some(JSONRPC_INVALID_PARAMS)
         /\ sent[t] = <<>>
         /\ attempts[t] = 0
         /\ threads = {1} => _id_counter = 0

C7_Witness ==
   /\ validate
   /\ Rejected(1)
   /\ tool_name[1] = "vice.disk.read_sector"
   /\ DOMAIN arguments[1] = {"unit", "sector"}
   /\ _id_counter = 0

\* C8: a call aborted by client-side validation is still recorded by the
\* monitor: exactly one LogEntry with success = false and no attempt.
C8_RejectedCallRecorded ==
   \A t \in threads :
      Rejected(t) =>
         /\ sent[t] = <<>>
         /\ Len(logged[t]) = 1
         /\ ~logged[t][1].success

\* C9: a call that terminates either returns a decoded result or raises a
\* ViceMCPError subclass carrying a message and a code; whatever the
\* attempts answered, no transport exception reaches the caller.
C9_TypedOutcome ==
   \A t \in threads :
      pc[t] = "done" =>
         \/ /\ ~ret[t].raised
            /\ ret[t].value \in DecodedResults
         \/ /\ ret[t].raised
            /\ IsViceMCPError(ret[t].exc.cls)
            /\ ~IsOSError(ret[t].exc.cls)
            /\ ret[t].exc.cls \notin OtherExceptionClasses
            /\ ret[t].exc.code # None

C9_Witness ==
   /\ pc[1] = "done"
   /\ Len(sent[1]) = 2
   /\ sent[1][1].exc.cls = "TimeoutError"
   /\ sent[1][2].exc.cls = "IncompleteRead"
   /\ ret[1].raised
   /\ ret[1].exc.cls = "ViceMCPError"

\* the call of thread t used up its attempts: it ended after a last
\* attempt that failed with a protocol or transport failure
ExhaustedAfter(t, outcomes) ==
   /\ Finished(t)
   /\ sent[t] # <<>>
   /\ sent[t][Len(sent[t])].outcome \in outcomes

LastExc(t) == sent[t][Len(sent[t])].exc

\* C10 as stated: on exhaustion the caller gets a connection-class error
\* if the last failure was transport-level and a generic exhaustion error
\* if it was protocol-level.
C10_Original ==
   \A t \in threads :
      /\ ExhaustedAfter(t, {"oserror", "exception"}) =>
            ret[t].raised /\ ret[t].exc.cls = "ViceMCPConnectionError"
      /\ ExhaustedAfter(t, {"protocol"}) =>
            ret[t].raised /\ ret[t].exc.cls = "ViceMCPError"

\* C10 (amended): on exhaustion the caller gets the last protocol error
\* itself (ViceMCPProtocolError with its message and code) if the last
\* failure was protocol-level, ViceMCPConnectionError if it was a transport
\* exception of the OSError family, and a generic ViceMCPError if it was
\* any other exception.
C10_ExhaustionError ==
   \A t \in threads :
      /\ ExhaustedAfter(t, {"protocol"}) =>
            /\ ret[t] = Raised(LastExc(t))
            /\ ret[t].exc.cls = "ViceMCPProtocolError"
      /\ ExhaustedAfter(t, {"oserror"}) =>
            /\ ret[t].raised
            /\ ret[t].exc.cls = "ViceMCPConnectionError"
      /\ ExhaustedAfter(t, {"exception"}) =>
            /\ ret[t].raised
            /\ ret[t].exc.cls = "ViceMCPError"
      /\ ExhaustedAfter(t, {"oserror", "exception"}) =>
            ret[t].exc.msg.text = LastExc(t).msg.text

C10_Witness ==
   /\ max_retries = 1
   /\ ExhaustedAfter(1, {"exception"})
   /\ Outcomes(1) = <<"protocol", "exception">>
   /\ ret[1].exc = ViceMCPError("ViceMCPError",
                                Composed("Call failed after", 2,
                                         "IncompleteRead"), 0)

\* the attempts of thread t so far all failed with a timeout
AllTimedOut(t) ==
   /\ sent[t] # <<>>
   /\ \A i \in DOMAIN sent[t] : sent[t][i].exc.cls = "TimeoutError"

\* C11: when every attempt of a logical call fails with a timeout, call
\* raises ViceMCPTimeoutError, not the ViceMCPConnectionError of failed
\* connections.
C11_TimeoutExhaustion ==
   \A t \in threads :
      Finished(t) /\ AllTimedOut(t) =>
         /\ ret[t].raised
         /\ ret[t].exc.cls = "ViceMCPTimeoutError"

\* threads whose current call has appended its entry
Recorded == {t \in threads : logged[t] # <<>>}

\* C12: the in-memory log is safe under concurrent calls: in every
\* interleaving it holds exactly one entry per logical call that has
\* recorded (K entries once K calls are over), and the entries of the calls
\* in progress sit at distinct positions of the log: none is lost,
\* duplicated or overwritten.
C12_LogSafeUnderConcurrency ==
   /\ Len(_entries) =
         (MaxCalls - calls_left)
            - Cardinality({t \in threads : pc[t] \in InLoop \cup {"record"}})
   /\ \E f \in [Recorded -> DOMAIN _entries] :
         /\ \A t \in Recorded : _entries[f[t]] = logged[t][1]
         /\ \A t1 \in Recorded, t2 \in Recorded : t1 # t2 => f[t1] # f[t2]
   /\ calls_left = 0 /\ (\A t \in threads : pc[t] \in {"idle", "done"}) =>
         Len(_entries) = MaxCalls

C12_Witness ==
   /\ pc[1] = "persist"
   /\ pc[2] = "persist"
   /\ Len(_entries) = 2
   /\ _entries[1] = logged[2][1]
   /\ _entries[2] = logged[1][1]
   /\ logged[1][1].success
   /\ ~logged[2][1].success

\* the outcome of the call of thread t is the one its attempts determine
OutcomeOfAttempts(t) ==
   IF sent[t] = <<>> THEN ret[t] = Raised(ExhaustedError(NoError, 0))
   ELSE LET last == sent[t][Len(sent[t])]
        IN CASE last.outcome = "ok" ->
                  ~ret[t].raised /\ ret[t].value # Absent
             [] last.outcome = "tool" -> ret[t] = Raised(last.exc)
             [] OTHER ->
                  ret[t] = Raised(ExhaustedError(last.exc, Len(sent[t])))

\* C13: a failed write to the log file never breaks the call: the entry is
\* in the in-memory log all the same, nothing is raised by record, and the
\* call returns or raises what its attempts determine, after the same
\* number of attempts, exactly as when the write succeeds.
C13_PersistFailureHarmless ==
   \A t \in threads :
      Finished(t) =>
         /\ OutcomeOfAttempts(t)
         /\ attempts[t] = Len(sent[t])
         /\ Len(logged[t]) = 1
         /\ \E i \in DOMAIN _entries : _entries[i] = logged[t][1]
         /\ threads = {1} =>
               /\ _entries = logged[t]
               /\ durable \in {<<>>, _entries}

C13_Witness ==
   /\ Finished(1)
   /\ durable = <<>>
   /\ Len(_entries) = 1
   /\ Outcomes(1) = <<"protocol", "ok">>
   /\ ret[1] = Returned(DirectResult)

\* C14: the reliability log is append-only: every step leaves the earlier
\* log as a prefix of the later one, with the same entries in the same
\* order; record adds exactly one entry at the end, and get_stats and
\* get_recent_failures leave the log as it is.
C14_AppendOnly ==
   [][/\ Len(_entries') >= Len(_entries)
      /\ SubSeq(_entries', 1, Len(_entries)) = _entries
      /\ mon_ret'.op = "record" /\ _entries' # _entries =>
            Len(_entries') = Len(_entries) + 1
      /\ mon_ret'.op \in {"get_stats", "get_recent_failures"} =>
            _entries' = _entries /\ durable' = durable]_vars

C14_Witness ==
   /\ mon_ret.op = "get_recent_failures"
   /\ mon_ret.n = 1
   /\ Len(_entries) = 3
   /\ _entries[1].success /\ ~_entries[2].success /\ ~_entries[3].success
   /\ mon_ret.failures = <<_entries[3]>>

\* the code of an error response, -1 when it has none
CodeOf(d) == IF d.code = None THEN -1 ELSE d.code[1]

\* C15: an error response is classified by its code: a code from -32799 to
\* -32600, both included, raises ViceMCPProtocolError, which the retry loop
\* handles by fallback or retry; every other code raises ViceMCPToolError,
\* which is never retried: the application codes -32000..-32004, the
\* default -1 of an error without a code, and -32800 and -32599 just
\* outside the band. The exception carries the code and the message.
C15_ClassifiedByCode ==
   decoded # NoOutcome /\ data.kind = "error" =>
      /\ decoded.raised
      /\ decoded.exc.code = Some(CodeOf(data))
      /\ decoded.exc.msg = data.msg
      /\ CodeOf(data) >= -32799 /\ CodeOf(data) <= -32600 =>
            /\ decoded.exc.cls = "ViceMCPProtocolError"
            /\ Handler(decoded.exc) = "protocol"
      /\ CodeOf(data) < -32799 \/ CodeOf(data) > -32600 =>
            /\ decoded.exc.cls = "ViceMCPToolError"
            /\ Handler(decoded.exc) = "tool"
      /\ CodeOf(data) \in {-32800, -32599, -1} \cup (-32004..-32000) =>
            decoded.exc.cls = "ViceMCPToolError"
      /\ data.code = None => decoded.exc.code = Some(-1)

C15_Witness ==
   /\ data.kind = "error"
   /\ data.code = Some(-32599)
   /\ decoded.raised
   /\ decoded.exc.cls = "ViceMCPToolError"

\* C16: a result whose content is a one-element array holding a block of
\* type "text" is returned as the JSON value of the text, or as the text
\* itself when it is not JSON; any other content is returned as it is,
\* unparsed; a result without content is returned as it is.
C16_ResultUnwrapping ==
   decoded # NoOutcome /\ data.kind = "result" =>
      /\ ~decoded.raised
      /\ \A s \in DOMAIN JsonTexts :
            data.result = McpResult(<<TextBlock(JStr(s))>>) =>
               decoded.value = JsonTexts[s]
      /\ \A s \in PlainTexts :
            data.result = McpResult(<<TextBlock(JStr(s))>>) =>
               decoded.value = JStr(s)
      /\ \A x \in NonStringTexts :
            data.result = McpResult(<<TextBlock(x)>>) => decoded.value = x
      /\ data.result = McpResult(<<JDict([type |-> JStr("text")])>>) =>
            decoded.value = JStr("")
      /\ data.result \in OtherContentResults =>
            decoded.value = data.result.f.content
      /\ data.result \in NoContentResults \ {Absent} =>
            decoded.value = data.result
      /\ data.result = Absent => decoded.value = JNull

C16_Witness ==
   /\ data.kind = "result"
   /\ data.result = McpResult(<<TextBlock(JStr("{\"ok\":true}"))>>)
   /\ decoded = Returned(JDict([ok |-> JBool(TRUE)]))

\* the types of the values of a declared kind
DeclaredKind(type_str) ==
   CASE type_str = "number" -> {"int", "float"}
     [] type_str = "string" -> {"str"}
     [] type_str = "boolean" -> {"bool"}
     [] type_str = "array" -> {"list", "tuple"}
     [] type_str = "object" -> {"dict"}
     [] OTHER -> PyTypes

\* the parameters of a section of a schema, as a set of <<name, kind>>
ParamsOf(section) == {section[i] : i \in DOMAIN section}

\* the arguments are exactly the required parameters of the tool, each
\* with a value of its declared kind
ExactlyRequired(tool, params) ==
   /\ DOMAIN params = RequiredNames(tool)
   /\ \A p \in ParamsOf(TOOL_SCHEMAS[tool].required) :
         params[p[1]] \in DeclaredKind(p[2])

\* the violations of a list
ErrorsIn(errors) == {errors[i] : i \in DOMAIN errors}

\* C17: for every tool with a registered schema, an argument map that
\* supplies every required parameter with a value of the declared kind and
\* no optional parameter yields an empty violation list.
C17_RequiredOnlyAccepted ==
   verrors # None /\ vtool \in DOMAIN TOOL_SCHEMAS
      /\ ExactlyRequired(vtool, vparams) =>
         verrors = Some(<<>>)

C17_Witness ==
   /\ verrors = Some(<<>>)
   /\ vtool = "vice.memory.search"
   /\ vparams["pattern"] = "tuple"
   /\ Cardinality(DOMAIN vparams) = 3
   /\ ExactlyRequired(vtool, vparams)
   /\ TOOL_SCHEMAS[vtool].optional # <<>>

\* C18: a bool supplied for a parameter of kind number is always rejected
\* with a wrong-type violation naming that parameter, whether the parameter
\* is required or optional, and whatever else the arguments hold.
C18_BoolIsNotNumber ==
   verrors # None /\ vtool \in DOMAIN TOOL_SCHEMAS =>
      \A p \in ParamsOf(TOOL_SCHEMAS[vtool].required)
                  \cup ParamsOf(TOOL_SCHEMAS[vtool].optional) :
         p[2] = "number" /\ p[1] \in DOMAIN vparams
            /\ vparams[p[1]] = "bool" =>
               /\ WrongTypeError(p[1]) \in ErrorsIn(verrors[1])
               /\ CallErrors(TRUE, vtool, vparams) # <<>>

C18_Witness ==
   /\ verrors # None
   /\ vtool \in DOMAIN TOOL_SCHEMAS
   /\ \E p \in ParamsOf(TOOL_SCHEMAS[vtool].optional) :
         /\ p[2] = "number"
         /\ p[1] \in DOMAIN vparams
         /\ vparams[p[1]] = "bool"
         /\ verrors = Some(<<WrongTypeError(p[1])>>)

\* argument maps a caller may pass to a tool without a schema
UnknownToolArgs ==
   UNION {[keys -> PyTypes] : keys \in SUBSET {"x", "junk"}}

\* C19: a tool name absent from the schema registry is never rejected:
\* validate_params returns an empty list for every argument map, and call
\* enters the retry loop, which sends the first attempt wrapped under the
\* tool's name whenever it runs at all (max_retries >= 0); the outcome of
\* the call is the one its attempts give, recorded once.
C19_UnknownToolPassesThrough ==
   \A t \in threads :
      pc[t] # "idle" /\ tool_name[t] \notin DOMAIN TOOL_SCHEMAS =>
         /\ \A args \in UnknownToolArgs :
               validate_params(tool_name[t], args) = <<>>
         /\ CallErrors(validate, tool_name[t], arguments[t]) = <<>>
         /\ ~Rejected(t)
         /\ pc[t] = "done" =>
               /\ attempts[t] = Len(sent[t])
               /\ max_retries >= 0 =>
                     /\ attempts[t] >= 1
                     /\ sent[t][1].payload.name = Some(tool_name[t])
               /\ OutcomeOfAttempts(t)
               /\ Len(logged[t]) = 1

C19_Witness ==
   /\ Finished(1)
   /\ validate
   /\ tool_name[1] = UnknownTool
   /\ Outcomes(1) = <<"oserror", "ok">>
   /\ ~ret[1].raised

\* the arguments without the keys the schema of the tool does not name
KnownOnly(tool, args) ==
   [key \in DOMAIN args \cap KnownNames(tool) |-> args[key]]

\* C20: argument keys that the schema of the tool does not name are not
\* violations and are sent as they are: every attempt of a call, wrapped or
\* direct, carries the keys of the caller's arguments, each with the
\* caller's value in its JSON kind, the same across retries and across the
\* switch of encoding.
C20_ArgumentsForwarded ==
   \A t \in threads :
      pc[t] # "idle" =>
         /\ validate_params(tool_name[t], arguments[t])
               = validate_params(tool_name[t],
                                 KnownOnly(tool_name[t], arguments[t]))
         /\ tool_name[t] \in DOMAIN TOOL_SCHEMAS =>
               \A e \in ErrorsIn(validate_params(tool_name[t],
                                                 arguments[t])) :
                  e.param \in KnownNames(tool_name[t])
         /\ \A i \in DOMAIN sent[t] :
               /\ DOMAIN sent[t][i].payload.arguments = DOMAIN arguments[t]
               /\ \A key \in DOMAIN arguments[t] :
                     sent[t][i].payload.arguments[key]
                        = JsonKind(arguments[t][key])
               /\ \A j \in DOMAIN sent[t] :
                     sent[t][j].payload.arguments
                        = sent[t][i].payload.arguments

C20_Witness ==
   /\ Finished(1)
   /\ validate
   /\ "junk" \in DOMAIN arguments[1]
   /\ Outcomes(1) = <<"protocol", "oserror", "ok">>
   /\ EncodingOf(sent[1][1].payload) = "wrapped"
   /\ EncodingOf(sent[1][3].payload) = "direct"
   /\ sent[1][3].payload.arguments["junk"] = "array"

\* the last call on the monitor was get_stats, so that mon_ret.stats is
\* get_stats() of the present log
StatsReturned == mon_ret.op = "get_stats"

\* C21: get_stats on an empty log returns total_calls = 0, failures = 0,
\* failure_rate = 0.0, avg_latency_ms = 0.0 and an empty failures_by_tool;
\* nothing is raised.
C21_EmptyStats ==
   StatsReturned /\ _entries = <<>> =>
      /\ mon_ret.stats = Stats(0, 0, 0, 0, <<>>)
      /\ mon_ret.stats.total_calls = 0
      /\ mon_ret.stats.failure_rate = 0
      /\ DOMAIN mon_ret.stats.failures_by_tool = {}

C21_Witness ==
   /\ StatsReturned
   /\ _entries = <<>>
   /\ mon_ret.stats.total_calls = 0

\* every entry of the log is a call of the tool
OnlyTool(tl) == \A i \in DOMAIN _entries : _entries[i].tool = tl

\* the number of failed entries of the log
FailedCount == Cardinality({i \in DOMAIN _entries : ~_entries[i].success})

\* C22 as stated: after N successes and M failures of one tool, in any
\* order, failures_by_tool[tool] is M, for M = 0 too, and total_calls is
\* N + M.
C22_Original ==
   StatsReturned /\ _entries # <<>> =>
      \A tl \in MonTools :
         OnlyTool(tl) =>
            /\ mon_ret.stats.total_calls = Len(_entries)
            /\ tl \in DOMAIN mon_ret.stats.failures_by_tool
            /\ mon_ret.stats.failures_by_tool[tl] = FailedCount

\* C22 (amended): after N successes and M failures of one tool, in any
\* order, total_calls is N + M; failures_by_tool[tool] is M when M >= 1,
\* and failures_by_tool has no key for the tool when M = 0.
C22_FailuresByTool ==
   StatsReturned /\ _entries # <<>> =>
      \A tl \in MonTools :
         OnlyTool(tl) =>
            /\ mon_ret.stats.total_calls = Len(_entries)
            /\ mon_ret.stats.failures = FailedCount
            /\ FailedCount >= 1 =>
                  /\ DOMAIN mon_ret.stats.failures_by_tool = {tl}
                  /\ mon_ret.stats.failures_by_tool[tl] = FailedCount
            /\ FailedCount = 0 =>
                  DOMAIN mon_ret.stats.failures_by_tool = {}

C22_Witness ==
   /\ StatsReturned
   /\ Len(_entries) = 3
   /\ OnlyTool("vice.ping")
   /\ ~_entries[1].success /\ _entries[2].success /\ ~_entries[3].success
   /\ mon_ret.stats.failures_by_tool["vice.ping"] = 2

\* C23 as stated: failure_rate is M / (N + M) exactly (failure_rate is
\* held in ten-thousandths).
C23_Original ==
   StatsReturned /\ _entries # <<>> =>
      mon_ret.stats.failure_rate * Len(_entries) = 10000 * FailedCount

\* C23 (amended): failure_rate is M / (N + M) rounded to four decimal
\* places: it differs from the quotient by at most half a ten-thousandth,
\* and is the quotient itself whenever that has at most four decimals.
C23_FailureRate ==
   StatsReturned /\ _entries # <<>> =>
      LET total == Len(_entries)
          diff == mon_ret.stats.failure_rate * total - 10000 * FailedCount
      IN /\ 2 * diff <= total
         /\ -2 * diff <= total
         /\ (10000 * FailedCount) % total = 0 => diff = 0
         /\ mon_ret.stats.failure_rate >= 0
         /\ mon_ret.stats.failure_rate <= 10000

C23_Witness ==
   /\ StatsReturned
   /\ Len(_entries) = 3
   /\ FailedCount = 2
   /\ mon_ret.stats.failure_rate = 6667

\* C24: for every n >= 0, get_recent_failures(n) returns the last
\* min(n, number of failed entries) failed entries in their order in the
\* log; for n = 0 that is the empty list.
C24_RecentFailures ==
   mon_ret.op = "get_recent_failures" /\ mon_ret.n >= 0 =>
      LET failed == Failures(_entries)
          k == IF mon_ret.n < Len(failed) THEN mon_ret.n ELSE Len(failed)
      IN /\ Len(mon_ret.failures) = k
         /\ mon_ret.failures = SubSeq(failed, Len(failed) - k + 1,
                                      Len(failed))
         /\ mon_ret.n = 0 => mon_ret.failures = <<>>

\* the encoding of the i-th attempt of thread t
Encoding(t, i) == EncodingOf(sent[t][i].payload)

\* C25: the encoding of the attempts of one call: attempt 0 is wrapped;
\* attempt k is direct exactly when an earlier attempt of the call ended in
\* a protocol-level error; so the encoding switches at most once, never
\* goes back to wrapped, and a transport-level failure leaves it as it is.
C25_EncodingStateMachine ==
   \A t \in threads :
      \A k \in DOMAIN sent[t] :
         /\ sent[t][k].attempt = k - 1
         /\ k = 1 => Encoding(t, k) = "wrapped"
         /\ Encoding(t, k) = "direct"
               <=> \E j \in 1..(k - 1) : sent[t][j].outcome = "protocol"
         /\ \A j \in 1..(k - 1) :
               Encoding(t, j) = "direct" => Encoding(t, k) = "direct"
         /\ k > 1 /\ sent[t][k - 1].outcome \in {"oserror", "exception"} =>
               Encoding(t, k) = Encoding(t, k - 1)
         /\ k > 1 /\ Encoding(t, k) # Encoding(t, k - 1) =>
               /\ sent[t][k - 1].outcome = "protocol"
               /\ \A j \in 1..(k - 2) : sent[t][j].outcome # "protocol"

C25_Witness ==
   /\ Finished(1)
   /\ Outcomes(1) = <<"oserror", "protocol", "protocol">>
   /\ Encoding(1, 1) = "wrapped"
   /\ Encoding(1, 2) = "wrapped"
   /\ Encoding(1, 3) = "direct"

\* attempt i of thread t failed in a way that is followed by a back-off
\* when the loop has attempts left
BacksOff(t, i) ==
   \/ sent[t][i].outcome \in {"oserror", "exception"}
   \/ sent[t][i].outcome = "protocol" /\ Encoding(t, i) = "direct"

\* C26: a sleep follows attempt k exactly when attempt k failed with a
\* transport-level failure, or with a protocol-level error on the direct
\* encoding, and k < max_retries; it lasts retry_delay * 2^k. No sleep
\* follows the first protocol-level error of a call nor the final attempt.
C26_BackoffSchedule ==
   \A t \in threads :
      \A i \in DOMAIN sent[t] :
         LET k == sent[t][i].attempt
             due == BacksOff(t, i) /\ k < max_retries
         IN /\ sent[t][i].sleep # None =>
                  /\ due
                  /\ sent[t][i].sleep = Some(retry_delay * Pow(2, k))
            /\ i < Len(sent[t]) \/ Finished(t) =>
                  (sent[t][i].sleep # None <=> due)
            /\ pc[t] = "sleep" /\ i = Len(sent[t]) => due
            /\ k = max_retries => sent[t][i].sleep = None
            /\ sent[t][i].outcome = "protocol"
                  /\ (\A j \in 1..(i - 1) : sent[t][j].outcome # "protocol")
                  => /\ sent[t][i].sleep = None
                     /\ ~(pc[t] = "sleep" /\ i = Len(sent[t]))

C26_Witness ==
   /\ Finished(1)
   /\ max_retries = 2
   /\ Outcomes(1) = <<"protocol", "protocol", "oserror">>
   /\ sent[1][1].sleep = None
   /\ sent[1][2].sleep = Some(1000)
   /\ sent[1][3].sleep = None

\* every attempt of thread t so far ended in a protocol-level error
AllProtocol(t) ==
   \A i \in DOMAIN sent[t] : sent[t][i].outcome = "protocol"

\* C27: for max_retries >= 0 no call makes more than max_retries + 1
\* attempts, the immediate retry of the fallback included; a service that
\* answers every attempt with a protocol-band error gets exactly
\* max_retries + 1 attempts, the first wrapped and every later one direct.
C27_AttemptBudget ==
   \A t \in threads :
      max_retries >= 0 =>
         /\ Len(sent[t]) <= max_retries + 1
         /\ attempts[t] <= max_retries + 1
         /\ Finished(t) /\ AllProtocol(t) =>
               /\ Len(sent[t]) = max_retries + 1
               /\ Encoding(t, 1) = "wrapped"
               /\ \A i \in 2..Len(sent[t]) : Encoding(t, i) = "direct"
               /\ \A i \in DOMAIN sent[t] : sent[t][i].attempt = i - 1

C27_Witness ==
   /\ Finished(1)
   /\ max_retries = 2
   /\ Outcomes(1) = <<"protocol", "protocol", "protocol">>
   /\ Len(sent[1]) = 3

\* C29: with max_retries >= 0, the retry_count of the LogEntry of a call is
\* the number of attempts made minus one, whether the call succeeded, got a
\* tool error or exhausted its attempts; so 0 <= retry_count <= max_retries,
\* and retry_count = max_retries on every exhaustion.
C29_RetryCount ==
   \A t \in threads :
      max_retries >= 0 /\ logged[t] # <<>> =>
         /\ sent[t] # <<>>
         /\ logged[t][1].retry_count = Len(sent[t]) - 1
         /\ logged[t][1].retry_count >= 0
         /\ logged[t][1].retry_count <= max_retries
         /\ sent[t][Len(sent[t])].outcome \notin {"ok", "tool"} =>
               logged[t][1].retry_count = max_retries
         /\ logged[t][1].success <=> sent[t][Len(sent[t])].outcome = "ok"

C29_Witness ==
   /\ Finished(1)
   /\ max_retries = 2
   /\ Outcomes(1) = <<"oserror", "tool">>
   /\ logged[1][1].retry_count = 1

\* C30: the fallback_used flag of the LogEntry of a call is true exactly
\* when at least one attempt of the call was sent in the direct encoding,
\* for every terminal outcome and every max_retries >= 0.
C30_FallbackFlag ==
   \A t \in threads :
      max_retries >= 0 /\ logged[t] # <<>> =>
         (logged[t][1].fallback_used
             <=> \E i \in DOMAIN sent[t] : Encoding(t, i) = "direct")

\* thread t is inside _call_raw
Running(t) == pc[t] \in InLoop \cup {"record", "persist"}

\* C28: every call that enters _call_raw eventually returns a result,
\* raises a tool error or raises the error of exhaustion, as long as every
\* send and every sleep completes: no sequence of answers keeps the retry
\* loop running forever.
C28_Termination ==
   \A t \in Threads :
      Running(t) ~> (Finished(t) /\ OutcomeOfAttempts(t))

C28_Witness ==
   /\ Finished(1)
   /\ max_retries = 2
   /\ Outcomes(1) = <<"protocol", "protocol", "exception">>
   /\ ret[1].raised

\* the call of thread t ended with a tool-level error
EndedInToolError(t) ==
   Finished(t) /\ sent[t] # <<>> /\ sent[t][Len(sent[t])].outcome = "tool"

\* C31: when a call ends with a tool-level error, its failed LogEntry
\* carries the message and the code of that tool error, on attempt 0 as
\* after earlier failures that were retried.
C31_ToolErrorLogged ==
   \A t \in threads :
      EndedInToolError(t) =>
         /\ Len(logged[t]) = 1
         /\ ~logged[t][1].success
         /\ logged[t][1].error = Some(LastExc(t).msg)
         /\ logged[t][1].error_code = LastExc(t).code

\* C32: on exhaustion the LogEntry and the error raised tell the last
\* failure of the call: error is the message of the last failed attempt,
\* error_code its code (none when it has none), and the error raised
\* carries the same message.
C32_ExhaustionDiagnosis ==
   \A t \in threads :
      ExhaustedAfter(t, {"protocol", "oserror", "exception"}) =>
         /\ Len(logged[t]) = 1
         /\ ~logged[t][1].success
         /\ logged[t][1].error = Some(LastExc(t).msg)
         /\ logged[t][1].error_code = LastExc(t).code
         /\ ret[t].raised
         /\ ret[t].exc.msg.text = LastExc(t).msg.text

C32_Witness ==
   /\ ExhaustedAfter(1, {"oserror"})
   /\ max_retries = 1
   /\ sent[1][1].exc.msg = Plain("m1")
   /\ sent[1][2].exc.msg = Plain("m2")
   /\ logged[1][1].error = Some(Plain("m2"))
   /\ ret[1].exc.msg.text = "m2"

\* the attempts of thread t so far are those of a call that runs alone:
\* indices from 0, the encoding, the timeout and the back-off of each
\* attempt determined by the outcomes of the earlier attempts of the call
OwnRetryState(t) ==
   \A i \in DOMAIN sent[t] :
      /\ sent[t][i].attempt = i - 1
      /\ sent[t][i].timeout = <<timeout * Pow(3, i - 1), Pow(2, i - 1)>>
      /\ Encoding(t, i) = "direct"
            <=> \E j \in 1..(i - 1) : sent[t][j].outcome = "protocol"
      /\ sent[t][i].sleep # None =>
            /\ BacksOff(t, i)
            /\ i - 1 < max_retries
            /\ sent[t][i].sleep = Some(retry_delay * Pow(2, i - 1))
      /\ i < Len(sent[t]) /\ BacksOff(t, i) => sent[t][i].sleep # None

\* C33: the retry state of a call is its own: in every interleaving of
\* concurrent calls, and after any earlier calls on the client, the attempt
\* indices, encodings, timeouts and delays of a call follow from its own
\* outcomes; a new call starts at attempt 0, wrapped, with the base timeout.
C33_RetryStatePrivate ==
   \A t \in threads :
      /\ OwnRetryState(t)
      /\ attempts[t] = Len(sent[t]) \/ attempts[t] = Len(sent[t]) + 1
      /\ sent[t] # <<>> =>
            /\ sent[t][1].attempt = 0
            /\ Encoding(t, 1) = "wrapped"
            /\ sent[t][1].timeout = <<timeout, 1>>

\* the second call of thread 1, after a first call of thread 1 that ended
\* on the direct encoding
C33_Witness ==
   /\ calls_left = 0
   /\ pc[2] = "idle"
   /\ Len(_entries) = 1
   /\ _entries[1].fallback_used
   /\ _entries[1].success
   /\ logged[1] = <<>>
   /\ Len(sent[1]) = 1
   /\ Encoding(1, 1) = "wrapped"
   /\ sent[1][1].timeout = <<timeout, 1>>

\* attempt i of thread t got a body that is not JSON or not a JSON object
Undecodable(t, i) == sent[t][i].resp.kind \in {"badjson", "nonobject"}

\* C34: an attempt whose body is not JSON, or is JSON but not an object,
\* is handled like an error of the protocol band: on the wrapped encoding
\* the next attempt follows at once and is direct, on the direct encoding a
\* back-off precedes the next attempt, and the body is never returned as a
\* result.
C34_UndecodableIsProtocolError ==
   \A t \in threads :
      \A i \in DOMAIN sent[t] :
         Undecodable(t, i) =>
            /\ sent[t][i].outcome = "protocol"
            /\ sent[t][i].exc.cls = "ViceMCPProtocolError"
            /\ sent[t][i].exc.code[1] \in -32799..-32600
            /\ Encoding(t, i) = "wrapped" =>
                  /\ sent[t][i].sleep = None
                  /\ i < Len(sent[t]) => Encoding(t, i + 1) = "direct"
            /\ Encoding(t, i) = "direct" /\ (i < Len(sent[t]) \/ Finished(t))
                  => (sent[t][i].sleep # None <=> i - 1 < max_retries)
            /\ i < Len(sent[t]) \/ Finished(t) =>
                  (i = Len(sent[t]) <=> i - 1 = max_retries)
            /\ Finished(t) /\ i = Len(sent[t]) =>
                  /\ ret[t] = Raised(sent[t][i].exc)
                  /\ ~logged[t][1].success

C34_Witness ==
   /\ Finished(1)
   /\ max_retries = 2
   /\ sent[1][1].resp.kind = "badjson"
   /\ sent[1][2].resp.kind = "nonobject"
   /\ sent[1][1].sleep = None
   /\ sent[1][2].sleep = Some(1000)
   /\ Encoding(1, 2) = "direct"
   /\ sent[1][3].outcome = "ok"

\* the ids issued so far: one per attempt sent, and one more while an
\* attempt has taken its id and is not sent yet
IdsIssued(t) == Len(sent[t]) + (IF pc[t] = "id_load" THEN 1 ELSE 0)

\* C35: in sequential execution the request ids of a client increase
\* strictly in issue order and every attempt takes one fresh id: the i-th
\* attempt of the first call has id i, a call of k attempts advances the
\* counter by exactly k, no retry reuses an id, a call aborted by
\* validation takes none, and no step ever lowers the counter.
C35_FreshIds ==
   /\ [](\A t \in threads :
           /\ \A i \in DOMAIN sent[t] : sent[t][i].payload.id = i
           /\ \A i, j \in DOMAIN sent[t] :
                 i < j => sent[t][i].payload.id < sent[t][j].payload.id
           /\ _id_counter = IdsIssued(t)
           /\ Finished(t) => _id_counter = attempts[t]
           /\ Rejected(t) => _id_counter = 0 /\ sent[t] = <<>>)
   /\ [][_id_counter' \in {_id_counter, _id_counter + 1}]_vars

C35_Witness ==
   /\ Finished(1)
   /\ Outcomes(1) = <<"protocol", "oserror", "ok">>
   /\ sent[1][1].payload.id = 1
   /\ sent[1][2].payload.id = 2
   /\ sent[1][3].payload.id = 3
   /\ _id_counter = 3

\* the violations the arguments of a registered tool must give
ExpectedErrors(tool, params) ==
   LET required == ParamsOf(TOOL_SCHEMAS[tool].required)
       optional == ParamsOf(TOOL_SCHEMAS[tool].optional)
   IN {MissingError(p[1]) : p \in {q \in required : q[1] \notin DOMAIN params}}
      \cup {WrongTypeError(p[1]) :
              p \in {q \in required \cup optional :
                        /\ q[1] \in DOMAIN params
                        /\ params[q[1]] \notin DeclaredKind(q[2])}}

\* every required parameter is there with a value of its kind and every
\* optional parameter that is there has a value of its kind
WellFormed(tool, params) ==
   /\ \A p \in ParamsOf(TOOL_SCHEMAS[tool].required) :
         p[1] \in DOMAIN params /\ params[p[1]] \in DeclaredKind(p[2])
   /\ \A p \in ParamsOf(TOOL_SCHEMAS[tool].optional) :
         p[1] \in DOMAIN params => params[p[1]] \in DeclaredKind(p[2])

\* C36: for a tool with a schema the violation list holds exactly one
\* entry for each required parameter that is missing, one for each required
\* or optional parameter present with a value of the wrong kind, and
\* nothing else; kind any and absent optional parameters give none; so the
\* list is empty exactly when the arguments are well formed.
C36_ValidationExact ==
   verrors # None /\ vtool \in DOMAIN TOOL_SCHEMAS =>
      /\ ErrorsIn(verrors[1]) = ExpectedErrors(vtool, vparams)
      /\ Len(verrors[1]) = Cardinality(ExpectedErrors(vtool, vparams))
      /\ verrors[1] = <<>> <=> WellFormed(vtool, vparams)
      /\ \A p \in ParamsOf(TOOL_SCHEMAS[vtool].required)
                     \cup ParamsOf(TOOL_SCHEMAS[vtool].optional) :
            p[2] = "any" => WrongTypeError(p[1]) \notin ErrorsIn(verrors[1])
      /\ \A p \in ParamsOf(TOOL_SCHEMAS[vtool].optional) :
            p[1] \notin DOMAIN vparams =>
               \A e \in ErrorsIn(verrors[1]) : e.param # p[1]

C36_Witness ==
   /\ vtool = "vice.memory.search"
   /\ DOMAIN vparams = {"start", "pattern", "max_results"}
   /\ vparams["pattern"] = "str"
   /\ vparams["max_results"] = "bool"
   /\ verrors = Some(<<MissingError("end"), WrongTypeError("pattern"),
                       WrongTypeError("max_results")>>)

\* the sum of the counts of a failures_by_tool dict
RECURSIVE SumCounts(_, _)
SumCounts(counts, tools) ==
   IF tools = {} THEN 0
   ELSE LET tl == CHOOSE x \in tools : TRUE
        IN counts[tl] + SumCounts(counts, tools \ {tl})

\* C37: whatever record does meanwhile, the result of get_stats is that of
\* one snapshot of the log: failures <= total_calls, so failure_rate <= 1,
\* and the counts of failures_by_tool add up to failures.
C37_StatsSnapshot ==
   mon_ret.op = "get_stats" =>
      /\ mon_ret.stats.failures <= mon_ret.stats.total_calls
      /\ mon_ret.stats.failure_rate <= 10000
      /\ SumCounts(mon_ret.stats.failures_by_tool,
                   DOMAIN mon_ret.stats.failures_by_tool)
            = mon_ret.stats.failures

\* C38: a response object with neither "error" nor "result" is a success:
\* the attempt that receives it is the last one, switches no encoding, the
\* call returns null, and its LogEntry has success = true and no error.
C38_EmptyObjectIsSuccess ==
   \A t \in threads :
      \A i \in DOMAIN sent[t] :
         sent[t][i].resp = EmptyObject =>
            /\ sent[t][i].outcome = "ok"
            /\ i = Len(sent[t])
            /\ pc[t] \notin InLoop
            /\ fallback_used[t] <=> Encoding(t, i) = "direct"
            /\ Finished(t) =>
                  /\ ret[t] = Returned(JNull)
                  /\ Len(logged[t]) = 1
                  /\ logged[t][1].success
                  /\ logged[t][1].error = None
                  /\ logged[t][1].error_code = None
                  /\ logged[t][1].retry_count = i - 1
                  /\ logged[t][1].fallback_used
                        <=> Encoding(t, i) = "direct"

C38_Witness ==
   /\ Finished(1)
   /\ Len(sent[1]) = 2
   /\ sent[1][1].outcome = "oserror"
   /\ sent[1][2].resp = EmptyObject
   /\ ret[1] = Returned(JNull)
   /\ logged[1][1].success

\* s can be obtained from u by deleting entries
RECURSIVE IsSubseq(_, _)
IsSubseq(s, u) ==
   IF s = <<>> THEN TRUE
   ELSE IF u = <<>> THEN FALSE
   ELSE IF Head(s) = Head(u) THEN IsSubseq(Tail(s), Tail(u))
   ELSE IsSubseq(s, Tail(u))

\* no call is between its start and its return
Quiescent == \A t \in threads : pc[t] \in {"idle", "done"}

\* C39: the durable log holds entries of the in-memory log in the same
\* order, also when several calls record at once; when no write fails and
\* every call has returned, the two logs are the same sequence.
C39_DurableMatchesMemory ==
   /\ IsSubseq(durable, _entries)
   /\ Quiescent /\ FALSE \notin persist_outcomes => durable = _entries

====
